---- MODULE Spec2Model ----
(***************************************************************************)
(* A model of the PaperBee paper pipeline (src/src/PaperBee/papers):       *)
(* PapersFinder.find_and_process_papers (search, DOI/URL resolution),      *)
(* ArticlesProcessor (the Normalizer), LLMFilter, update_google_sheet,     *)
(* cleanup_files and run_daily.                                            *)
(*                                                                         *)
(* Python strings are TLA+ strings; Len, \o and SubSeq act on them.  An    *)
(* optional value (a dict key that may be absent, or None) is a sequence   *)
(* of length at most one: <<>> is "absent", <<v>> is "present with v".     *)
(***************************************************************************)
EXTENDS Integers, Sequences, FiniteSets, TLC

(***************************************************************************)
(* Bounds of the model.                                                    *)
(***************************************************************************)
\* the longest raw record list one run's searches return
MaxPapers == 2
\* the longest raw record list of one run of run_daily
MaxDailyPapers == 2
\* the number of consecutive daily runs
MaxDays == 2
\* the most rows of a frame handed to LLMFilter
MaxFilterRows == 2

(***************************************************************************)
(* Python's str methods, as the code uses them.                            *)
(***************************************************************************)
SetMin(S) == CHOOSE x \in S : \A y \in S : x <= y

\* s.find(p): the 0-based index of the first occurrence, -1 when there is none
PyFind(s, p) ==
  LET hits == {i \in 0..(Len(s) - Len(p)) : SubSeq(s, i + 1, i + Len(p)) = p}
  IN IF hits = {} THEN -1 ELSE SetMin(hits)

\* p in s
PyIn(p, s) == PyFind(s, p) # -1

\* s.startswith(p)
PyStartsWith(s, p) == Len(s) >= Len(p) /\ SubSeq(s, 1, Len(p)) = p

\* s[k:], k possibly negative (counted from the end)
PySliceFrom(s, k) ==
  LET start == IF k < 0 THEN (IF Len(s) + k < 0 THEN 0 ELSE Len(s) + k)
                        ELSE (IF k > Len(s) THEN Len(s) ELSE k)
  IN SubSeq(s, start + 1, Len(s))

\* s[:k], k >= 0
PySliceTo(s, k) == SubSeq(s, 1, IF k > Len(s) THEN Len(s) ELSE k)

\* s.replace(old, new): every non-overlapping occurrence, left to right
RECURSIVE PyReplace(_, _, _)
PyReplace(s, old, new) ==
  LET i == PyFind(s, old)
  IN IF i = -1 THEN s
     ELSE SubSeq(s, 1, i) \o new \o PyReplace(PySliceFrom(s, i + Len(old)), old, new)

\* s.split(sep)[-1]: what follows the last separator of the left-to-right split
RECURSIVE PySplitLast(_, _)
PySplitLast(s, sep) ==
  LET i == PyFind(s, sep)
  IN IF i = -1 THEN s ELSE PySplitLast(PySliceFrom(s, i + Len(sep)), sep)

Whitespace == {" ", "\t", "\n", "\r"}

RECURSIVE PyLStrip(_)
PyLStrip(s) ==
  IF Len(s) > 0 /\ SubSeq(s, 1, 1) \in Whitespace THEN PyLStrip(SubSeq(s, 2, Len(s))) ELSE s

RECURSIVE PyRStrip(_)
PyRStrip(s) ==
  IF Len(s) > 0 /\ SubSeq(s, Len(s), Len(s)) \in Whitespace
  THEN PyRStrip(SubSeq(s, 1, Len(s) - 1)) ELSE s

\* s.strip()
PyStrip(s) == PyRStrip(PyLStrip(s))

\* s.lower(), for the ASCII letters
UpperLetters == "ABCDEFGHIJKLMNOPQRSTUVWXYZ"
LowerLetters == "abcdefghijklmnopqrstuvwxyz"

RECURSIVE PyLower(_)
PyLower(s) ==
  IF s = "" THEN ""
  ELSE LET c == SubSeq(s, 1, 1)
           k == PyFind(UpperLetters, c)
       IN (IF k = -1 THEN c ELSE SubSeq(LowerLetters, k + 1, k + 1))
          \o PyLower(SubSeq(s, 2, Len(s)))

\* s.split(sep), for a non-empty separator
RECURSIVE PySplit(_, _)
PySplit(s, sep) ==
  LET i == PyFind(s, sep)
  IN IF i = -1 THEN <<s>>
     ELSE <<SubSeq(s, 1, i)>> \o PySplit(PySliceFrom(s, i + Len(sep)), sep)

\* x in lst, for a list
InList(x, lst) == \E i \in 1..Len(lst) : lst[i] = x

(***************************************************************************)
(* Optional values.                                                        *)
(***************************************************************************)
None == <<>>
Some(v) == <<v>>
\* Python truthiness of an optional string
Truthy(o) == o # None /\ o[1] # ""
\* a or b
PyOr(a, b) == IF Truthy(a) THEN a ELSE b

(***************************************************************************)
(* Raw paper records, as the search collaborator's JSON gives them         *)
(* (spec section 6): title, publication_date, databases, keywords, and     *)
(* the optional doi / DOI / urls / url keys.  keywords is a list or a      *)
(* string or something else (null, a number): kw_kind tells which, and     *)
(* kw_list / kw_str hold the value of a list / a string.  A key a record   *)
(* lacks is None; Raw builds a record that has its title.                  *)
(***************************************************************************)
Raw(title, dbs, pdate, kwl, doi, urls, url) ==
  [title |-> Some(title), databases |-> dbs, publication_date |-> pdate,
   kw_kind |-> "list", kw_list |-> kwl, kw_str |-> "",
   doi |-> doi, DOI |-> None, urls |-> urls, url |-> url]

\* the two records of the end-to-end scenario (spec section 8)
RecA == Raw("A", <<"PubMed">>, "2024-01-01", <<"ml">>, None, None,
            Some("https://doi.org/10.1/x"))
RecB == [Raw("B", <<"bioRxiv">>, "2024-01-02", <<>>, None,
             Some(<<"https://www.biorxiv.org/content/10.2/y">>), None)
         EXCEPT !.kw_kind = "str", !.kw_str = "cancer"]
\* a DOI field with the doi: prefix, and one with doi: inside
RecD1 == Raw("D1", <<"PubMed">>, "2024-01-03", <<"\"tag1", "\"tag2">>,
             Some(" doi:10.3/w "), Some(<<"https://pub.org/doi/10.5/a">>), None)
RecD2 == [Raw("D2", <<"arXiv", "PubMed Central">>, "2024-01-04", <<>>, None, None, None)
          EXCEPT !.DOI = Some("10.4/doi:v")]
\* a DOI field that is no DOI, and a URL list mixing the strategy-2 patterns
RecU1 == Raw("U1", <<"ArXiv", "bioRxiv">>, "2024-01-05", <<"['k">>, Some("n/a"),
             Some(<<"https://pub.org/doi/10.5/a", "https://doi.org/10.6/b">>), None)
RecU2 == Raw("U2", <<>>, "2024-01-06", <<"\"a", "[\"", "[">>, None,
             Some(<<"ftp://mirror/u2", "http://dx.doi.org/abc", "https://doi.org/10.6/b">>), None)
RecU3 == Raw("U3", <<"PubMed", "bioRxiv">>, "2024-01-07",
             <<"[tag", "'q1", "[\"deep", "plain">>, None,
             Some(<<"http://dx.doi.org/10.7/2024.10.05">>), None)
\* PubMed records only the lookup service can resolve
RecP1 == Raw("Gene (X) map", <<"PubMed">>, "2024-01-08", <<>>, None, Some(<<>>), None)
RecP2 == Raw("Top 10. genes", <<"Scopus", "PubMed">>, "2024-01-09", <<>>, Some(""),
             Some(<<"https://doi.org">>), None)
\* the PubMed entry of the preprint B, carrying the preprint's DOI
RecD3 == Raw("B (PubMed entry)", <<"PubMed">>, "2024-01-11", <<"ml">>, Some("10.2/y"),
             None, None)
\* a record of an unlisted database with no link at all; its keywords are null
RecS1 == [Raw("S1", <<"Scopus">>, "2024-01-10", <<>>, None, None, None)
          EXCEPT !.kw_kind = "other"]

\* records without the title key: one with a DOI field, one with nothing
\* to resolve it by
RecN1 == [Raw("", <<"ArXiv">>, "2024-01-12", <<>>, Some("10.11/n"), None, None)
          EXCEPT !.title = None]
RecN2 == [Raw("", <<"bioRxiv">>, "2024-01-13", <<>>, None, None, None)
          EXCEPT !.title = None]

RawPool == {RecA, RecB, RecD1, RecD2, RecU1, RecU2, RecU3, RecP1, RecP2, RecS1,
            RecN1, RecN2}

\* article.get(key, []) for the urls key
GetUrls(article) == IF article.urls = None THEN <<>> ELSE article.urls[1]

(***************************************************************************)
(* PubMedClient.get_doi_from_title, as find_and_process_papers sees it:    *)
(* it raises, returns None, or returns a string.                           *)
(***************************************************************************)
LookupRaise == [kind |-> "raise", doi |-> None]
LookupReturn(o) == [kind |-> "return", doi |-> o]
LookupOutcomes ==
  {LookupRaise, LookupReturn(None), LookupReturn(Some("10.9/z")),
   LookupReturn(Some("doi:10.8/q")), LookupReturn(Some("n/a"))}

(***************************************************************************)
(* The identifier resolver: one iteration of the loop of                   *)
(* find_and_process_papers over the raw records.                           *)
(***************************************************************************)
\* Strategy 1: the record's own DOI field, cleaned
CleanDoi(s) == PyStrip(PyReplace(s, "doi:", ""))

ExistingDoi(article) == PyOr(article.doi, article.DOI)

Strategy1Hit(article) ==
  LET existing_doi == ExistingDoi(article)
  IN /\ Truthy(existing_doi)
     /\ PyStrip(existing_doi[1]) # ""
     /\ PyStartsWith(CleanDoi(existing_doi[1]), "10.")

\* a scan that gives the patterns priority over the list order: one pass
\* per pattern, the whole list each time
RECURSIVE FirstDoiOrgUrl(_, _)
FirstDoiOrgUrl(urls, i) ==
  IF i > Len(urls) THEN None
  ELSE IF PyIn("doi.org", urls[i]) /\ PyIn("/10.", urls[i]) THEN Some(urls[i])
  ELSE FirstDoiOrgUrl(urls, i + 1)

RECURSIVE FirstSlashDoiUrl(_, _)
FirstSlashDoiUrl(urls, i) ==
  IF i > Len(urls) THEN None
  ELSE IF PyIn("/doi/10.", urls[i]) /\ PyStartsWith(PySplitLast(urls[i], "/doi/"), "10.")
  THEN Some("https://doi.org/" \o PySplitLast(urls[i], "/doi/"))
  ELSE FirstSlashDoiUrl(urls, i + 1)

RECURSIVE FirstDxUrl(_, _)
FirstDxUrl(urls, i) ==
  IF i > Len(urls) THEN None
  ELSE IF PyIn("dx.doi.org", urls[i]) THEN Some(PyReplace(urls[i], "dx.doi.org", "doi.org"))
  ELSE FirstDxUrl(urls, i + 1)

ScanDoiUrl_pattern_priority(urls, i) ==
  IF FirstDoiOrgUrl(urls, i) # None THEN FirstDoiOrgUrl(urls, i)
  ELSE IF FirstSlashDoiUrl(urls, i) # None THEN FirstSlashDoiUrl(urls, i)
  ELSE FirstDxUrl(urls, i)

\* Strategy 2: the scan of the candidate URLs, from position i on; the
\* doi_url it leaves (None when no URL matched)
RECURSIVE ScanDoiUrl(_, _)
ScanDoiUrl(urls, i) ==
  IF i > Len(urls) THEN None
  ELSE LET url == urls[i]
       IN IF PyIn("doi.org", url) /\ PyIn("/10.", url) THEN Some(url)
          ELSE IF PyIn("/doi/10.", url)
               THEN LET doi_part == PySplitLast(url, "/doi/")
                    IN IF doi_part # "" /\ PyStartsWith(doi_part, "10.")
                       THEN Some("https://doi.org/" \o doi_part)
                       ELSE ScanDoiUrl(urls, i + 1)
          ELSE IF PyIn("dx.doi.org", url)
               THEN Some(PyReplace(url, "dx.doi.org", "doi.org"))
          ELSE ScanDoiUrl(urls, i + 1)

\* a slip in strategy 3: any non-blank answer of the lookup is taken as a DOI
Strategy3Hit_any_answer(article, lookup) ==
  /\ InList("PubMed", article.databases)
  /\ lookup.kind = "return"
  /\ Truthy(lookup.doi)
  /\ PyStrip(lookup.doi[1]) # ""

\* Strategy 3: the lookup's answer, accepted when it is a 10.-prefixed DOI
Strategy3Hit(article, lookup) ==
  /\ InList("PubMed", article.databases)
  /\ lookup.kind = "return"
  /\ Truthy(lookup.doi)
  /\ PyStrip(lookup.doi[1]) # ""
  /\ PyStartsWith(CleanDoi(lookup.doi[1]), "10.")

\* Strategy 4: the first http link that is no doi.org link
RECURSIVE BestUrl(_, _)
BestUrl(urls, i) ==
  IF i > Len(urls) THEN None
  ELSE IF PyStartsWith(urls[i], "http") /\ ~PyStartsWith(urls[i], "https://doi.org")
       THEN Some(urls[i])
       ELSE BestUrl(urls, i + 1)

\* Strategy 4, last resort: the search link synthesized from the title
\* (article["title"]: the record has the key)
SearchUrl(article) ==
  LET search_title ==
        PySliceTo(PyReplace(PyReplace(PyReplace(article.title[1], " ", "+"), "(", ""), ")", ""), 150)
  IN IF InList("PubMed", article.databases)
     THEN "https://pubmed.ncbi.nlm.nih.gov/?term=" \o search_title
     ELSE IF InList("bioRxiv", article.databases) \/ InList("biorxiv", article.databases)
     THEN "https://www.biorxiv.org/search/" \o search_title
     ELSE IF InList("ArXiv", article.databases) \/ InList("arxiv", article.databases)
     THEN "https://arxiv.org/search/?query=" \o search_title
     ELSE "https://scholar.google.com/scholar?q=" \o search_title

\* The whole iteration for one record: the url it is given, the strategy
\* that gave it (the key of doi_extraction_stats that is incremented),
\* whether get_doi_from_title was called, and the exception that leaves
\* the loop ("" for none).  article["title"] raises KeyError for a record
\* without the key: in strategy 3 inside the try block and again in its
\* except handler, in strategy 4 when the search link is built.
ResolveArticle(article, lookup) ==
  LET doi_url  == ScanDoiUrl(GetUrls(article), 1)
      best_url == BestUrl(GetUrls(article), 1)
  IN IF Strategy1Hit(article)
     THEN [url |-> "https://doi.org/" \o CleanDoi(ExistingDoi(article)[1]),
           strategy |-> "existing_doi", looked_up |-> FALSE, raises |-> ""]
     ELSE IF Truthy(doi_url)
     THEN [url |-> doi_url[1], strategy |-> "url_extracted", looked_up |-> FALSE,
           raises |-> ""]
     ELSE IF InList("PubMed", article.databases) /\ article.title = None
     THEN [url |-> "", strategy |-> "", looked_up |-> FALSE, raises |-> "KeyError"]
     ELSE IF Strategy3Hit(article, lookup)
     THEN [url |-> "https://doi.org/" \o CleanDoi(lookup.doi[1]),
           strategy |-> "api_found", looked_up |-> TRUE, raises |-> ""]
     ELSE IF Truthy(best_url)
     THEN [url |-> best_url[1], strategy |-> "fallback",
           looked_up |-> InList("PubMed", article.databases), raises |-> ""]
     ELSE IF article.title = None
     THEN [url |-> "", strategy |-> "", looked_up |-> FALSE, raises |-> "KeyError"]
     ELSE [url |-> SearchUrl(article), strategy |-> "fallback",
           looked_up |-> InList("PubMed", article.databases), raises |-> ""]

\* a slip in the concatenation: the fallback group first
MergeGroups_fallback_first(with_urls, without_urls) == without_urls \o with_urls

\* articles = articles_with_urls + articles_without_urls
MergeGroups(with_urls, without_urls) == with_urls \o without_urls

(***************************************************************************)
(* ArticlesProcessor: the Normalizer.                                      *)
(***************************************************************************)
Columns == <<"DOI", "Date", "PostedDate", "IsPreprint", "Title", "Keywords",
             "Source", "Preprint", "URL">>

\* a slip in extract_doi: the last occurrence of "10." instead of the first
extract_doi_last_occurrence(url) ==
  LET hits == {i \in 0..(Len(url) - 3) : SubSeq(url, i + 1, i + 3) = "10."}
  IN IF hits = {} THEN PySliceFrom(url, -1)
     ELSE PySliceFrom(url, CHOOSE i \in hits : \A j \in hits : j <= i)

\* extract_doi: x[x.find("10.") :]
extract_doi(url) == PySliceFrom(url, PyFind(url, "10."))

\* a slip in the membership test: a tag that merely holds the text PubMed
determine_preprint_status_substring(dbs) ==
  IF \E i \in 1..Len(dbs) : PyIn("PubMed", dbs[i]) THEN "FALSE" ELSE "TRUE"

\* "FALSE" if "PubMed" in dbs else "TRUE"
determine_preprint_status(dbs) == IF InList("PubMed", dbs) THEN "FALSE" ELSE "TRUE"

\* a slip in the slicing: two characters are cut whatever the marker
ProcessKeyword_always_two(kw) ==
  IF Len(kw) > 2 /\ (\/ PyStartsWith(kw, "[\"") \/ PyStartsWith(kw, "['")
                     \/ PyStartsWith(kw, "[") \/ PyStartsWith(kw, "\"")
                     \/ PyStartsWith(kw, "'"))
  THEN PySliceFrom(kw, 2)
  ELSE kw

\* one element (a string) of a keyword list
ProcessKeyword(kw) ==
  IF Len(kw) > 2 /\ (\/ PyStartsWith(kw, "[\"") \/ PyStartsWith(kw, "['")
                     \/ PyStartsWith(kw, "[") \/ PyStartsWith(kw, "\"")
                     \/ PyStartsWith(kw, "'"))
  THEN IF PyStartsWith(kw, "[\"") \/ PyStartsWith(kw, "['")
       THEN PySliceFrom(kw, 2) ELSE PySliceFrom(kw, 1)
  ELSE kw

\* ", ".join(lst)
RECURSIVE PyJoin(_, _)
PyJoin(sep, lst) ==
  IF lst = <<>> THEN ""
  ELSE IF Len(lst) = 1 THEN lst[1]
  ELSE lst[1] \o sep \o PyJoin(sep, Tail(lst))

process_keywords(article) ==
  IF article.kw_kind = "list"
  THEN PyJoin(", ", [i \in 1..Len(article.kw_list) |-> ProcessKeyword(article.kw_list[i])])
  ELSE IF article.kw_kind = "str" THEN article.kw_str
  ELSE ""

\* a slip in the priority: the first tag of the list, whatever it is
extract_primary_source_first_tag(dbs) ==
  IF dbs # <<>> THEN dbs[1] ELSE "Unknown"

\* _extract_primary_source for a list of tags
extract_primary_source(dbs) ==
  IF InList("PubMed", dbs) THEN "PubMed"
  ELSE IF InList("bioRxiv", dbs) THEN "bioRxiv"
  ELSE IF InList("ArXiv", dbs) THEN "ArXiv"
  ELSE IF dbs # <<>> THEN dbs[1] ELSE "Unknown"

\* process_articles for one row of the frame; article.url is set
ProcessRow(article, today_str) ==
  [DOI |-> extract_doi(article.url[1]),
   Date |-> today_str,
   PostedDate |-> article.publication_date,
   IsPreprint |-> determine_preprint_status(article.databases),
   Title |-> article.title,
   Keywords |-> process_keywords(article),
   Source |-> extract_primary_source(article.databases),
   Preprint |-> None,
   URL |-> article.url[1]]

\* ArticlesProcessor(articles, today_str).articles: a frame is its column
\* names and its rows, in order
\* a slip in the empty case: pd.DataFrame() with no column list
EmptyFrame_no_columns == [columns |-> <<>>, rows |-> <<>>]

EmptyFrame == [columns |-> Columns, rows |-> <<>>]

\* filter_columns raises KeyError when a column it selects is a key of no
\* record: from_dict makes the columns of the union of the records' keys
ArticlesProcessorRaises(articles) ==
  articles # <<>> /\ \A i \in 1..Len(articles) : articles[i].title = None

\* the frame; a key a record lacks is a null cell (None)
ArticlesProcessor(articles, today_str) ==
  IF articles = <<>> THEN EmptyFrame
  ELSE [columns |-> Columns,
        rows |-> [i \in 1..Len(articles) |-> ProcessRow(articles[i], today_str)]]

(***************************************************************************)
(* PapersFinder.__init__: the fields the pipeline reads.  A date is a day  *)
(* of June 2024 (an integer); strftime("%Y-%m-%d") makes its string.       *)
(***************************************************************************)
Digit(n) == SubSeq("0123456789", n + 1, n + 1)
StrfDate(d) == "2024-06-" \o Digit(d \div 10) \o Digit(d % 10)

RootDir == "data"
\* os.path.join(root_dir, name)
PathJoin(dir, name) == dir \o "/" \o name

AllowedDatabases == {"biorxiv", "arxiv", "pubmed"}

\* the constructor's arguments: query strings are optional, since is an
\* optional number of days, databases an optional list
CtorArgs(query, query_biorxiv, query_pubmed_arxiv, since, databases) ==
  [query |-> query, query_biorxiv |-> query_biorxiv,
   query_pubmed_arxiv |-> query_pubmed_arxiv, since |-> since,
   databases |-> databases]

\* whether __init__ raises ValueError (an invalid database name)
CtorRaises(args) ==
  LET dbs == IF args.databases # None /\ args.databases[1] # <<>>
             THEN args.databases[1] ELSE <<"biorxiv", "pubmed">>
  IN \E i \in 1..Len(dbs) : dbs[i] \notin AllowedDatabases

\* the object __init__ builds on day today
PapersFinderInit(args, today) ==
  LET yesterday == today - (IF args.since # None THEN args.since[1] ELSE 1)
  IN [today_str |-> StrfDate(today),
      yesterday_str |-> StrfDate(yesterday),
      databases |-> IF args.databases # None /\ args.databases[1] # <<>>
                    THEN args.databases[1] ELSE <<"biorxiv", "pubmed">>,
      query_biorxiv |-> IF Truthy(args.query_biorxiv) THEN args.query_biorxiv ELSE None,
      query_pub_arx |-> args.query_pubmed_arxiv,
      query |-> IF Truthy(args.query) THEN args.query ELSE None,
      search_file |-> PathJoin(RootDir, StrfDate(today) \o ".json"),
      search_file_biorxiv |-> PathJoin(RootDir, StrfDate(today) \o "_biorxiv.json"),
      search_file_pub_arx |-> PathJoin(RootDir, StrfDate(today) \o "_pub_arx.json")]

\* the day of the runs of find_and_process_papers explored on their own
BaseDay == 10

\* the configurations explored: a unified query, split queries with and
\* without biorxiv among the databases, and split queries with one or both
\* missing
PipelineArgs ==
  {CtorArgs(Some("q"), None, None, None, None),
   CtorArgs(Some("q"), Some("qb"), Some("qp"), None, Some(<<"pubmed", "arxiv", "biorxiv">>)),
   CtorArgs(None, Some("qb"), Some("qp"), None, Some(<<"pubmed", "biorxiv", "arxiv">>)),
   CtorArgs(Some(""), Some("qb"), Some("qp"), None, Some(<<"pubmed", "arxiv">>)),
   CtorArgs(None, Some("qb"), None, None, Some(<<"biorxiv">>)),
   CtorArgs(None, Some(""), Some("qp"), None, Some(<<"pubmed">>)),
   CtorArgs(Some(""), None, None, None, None)}

(***************************************************************************)
(* The search collaborator (findpapers.search): it raises, or returns      *)
(* having written a result file ("ok"), a file json.load or the "papers"   *)
(* key fails on ("malformed"), or no file ("nofile").                      *)
(***************************************************************************)
RECURSIVE ListsUpTo(_, _)
ListsUpTo(S, n) ==
  IF n = 0 THEN {<<>>}
  ELSE LET shorter == ListsUpTo(S, n - 1)
       IN shorter \cup {Append(l, x) : l \in {m \in shorter : Len(m) = n - 1}, x \in S}

SearchOutcomes == {"ok", "raise", "malformed", "nofile"}

\* the file system after a search with this outcome
DiskAfterSearch(d, file, outcome, papers) ==
  IF outcome = "ok" THEN {f \in d : f.name # file} \cup {[name |-> file, good |-> TRUE, papers |-> papers]}
  ELSE IF outcome = "malformed"
  THEN {f \in d : f.name # file} \cup {[name |-> file, good |-> FALSE, papers |-> <<>>]}
  ELSE d

FileExists(d, file) == \E f \in d : f.name = file
FileGood(d, file) == \E f \in d : f.name = file /\ f.good
FilePapers(d, file) == (CHOOSE f \in d : f.name = file).papers

\* one search call, for the record of the searches issued
SearchCall(file, query, databases) ==
  [file |-> file, query |-> query, databases |-> databases]

\* a slip in the primary search: biorxiv is not taken out of the list
WithoutBiorxiv_unfiltered(dbs) == dbs

\* [database for database in self.databases if database != "biorxiv"]
WithoutBiorxiv(dbs) == SelectSeq(dbs, LAMBDA db : db # "biorxiv")

VARIABLES
  pc,                     \* where the run is
  self,                   \* the PapersFinder object
  disk,                   \* the search-result files of root_dir
  searches,               \* the searches issued so far, in order
  raw,                    \* the merged raw list, as the searches returned it
  articles,               \* find_and_process_papers' local articles
  articles_biorxiv_dict,  \* its local articles_biorxiv_dict
  idx,                    \* the position of the resolver loop in articles
  articles_with_urls,     \* the 'has proper DOI' group
  articles_without_urls,  \* the 'fallback' group
  strategies,             \* per raw record, the strategy that resolved it
  lookups,                \* the calls of get_doi_from_title: title and answer
  error,                  \* the exception that left the run ("" for none)
  result,                 \* the frame find_and_process_papers returns
  today,                  \* run_daily: the day of the current run
  args,                   \* the arguments every day's PapersFinder is built with
  flags,                  \* run_daily's post_to_* arguments
  sheet,                  \* the rows of the Google sheet, first row first
  papers,                 \* what update_google_sheet returned
  given,                  \* per chat sink, the list it was called with
  written,                \* the files the current run's searches wrote
  removed,                \* the files the current run's cleanup deleted
  llm_provider,           \* LLMFilter.llm_provider
  df,                     \* LLMFilter.df: the rows to filter
  llm_pc,                 \* where filter_articles is
  llm_idx,                \* the position of its loop in df
  retained_indices,       \* its local retained_indices
  llm_log,                \* per record evaluated: the backend's answer and the decision
  llm_error,              \* the exception that left filter_articles ("" for none)
  filtered_df,            \* the rows filter_articles returns
  slack_pc,               \* where the Slack post is
  papers_list,            \* the rows format_papers_for_slack was given
  slack_papers,           \* its first result: the formatted published papers
  slack_preprints,        \* its second result: the formatted preprints
  message_blocks,         \* publish_papers_to_slack's local message_blocks
  chunk_i,                \* the position of _send_multiple_slack_messages' loop
  posted,                 \* the chat_postMessage calls so far: blocks and outcome
  last_response,          \* _send_multiple_slack_messages' local last_response
  slack_response,         \* what publish_papers_to_slack returned
  doi_pc,                 \* where get_doi_from_title is
  n_retries,              \* its argument n_retries
  attempt,                \* the variable _ of its esearch loop
  pubmed_id,              \* its local pubmed_id (None while unbound)
  requests_log,           \* the HTTP requests it has issued, with their outcomes
  doi_result,             \* what it returned
  doi_error               \* the exception that left it ("" for none)

pipeVars == <<pc, self, disk, searches, raw, articles, articles_biorxiv_dict, idx,
              articles_with_urls, articles_without_urls, strategies, lookups,
              error, result>>

dailyVars == <<today, args, flags, sheet, papers, given, removed, written>>

llmVars == <<llm_provider, df, llm_pc, llm_idx, retained_indices, llm_log, llm_error,
             filtered_df>>

slackVars == <<slack_pc, papers_list, slack_papers, slack_preprints, message_blocks,
               chunk_i, posted, last_response, slack_response>>

pubmedVars == <<doi_pc, n_retries, attempt, pubmed_id, requests_log, doi_result, doi_error>>

vars == <<pipeVars, dailyVars, llmVars, slackVars, pubmedVars>>

\* the state of LLMFilter's variables while no filter runs (llm_filtering
\* is False)
FilterIdle ==
  /\ llm_provider = "openai"
  /\ df = <<>>
  /\ llm_pc = "off"
  /\ llm_idx = 1
  /\ retained_indices = <<>>
  /\ llm_log = <<>>
  /\ llm_error = ""
  /\ filtered_df = <<>>

\* the state of get_doi_from_title's variables while it is not explored
\* step by step (n_retries has its default)
PubMedIdle ==
  /\ doi_pc = "off"
  /\ n_retries = 3
  /\ attempt = 0
  /\ pubmed_id = None
  /\ requests_log = <<>>
  /\ doi_result = None
  /\ doi_error = ""

\* the state of the Slack publisher's variables while nothing is posted
SlackIdle ==
  /\ slack_pc = "off"
  /\ papers_list = <<>>
  /\ slack_papers = <<>>
  /\ slack_preprints = <<>>
  /\ message_blocks = <<>>
  /\ chunk_i = 0
  /\ posted = <<>>
  /\ last_response = None
  /\ slack_response = None

NoneGiven == [slack |-> None, telegram |-> None, zulip |-> None]

\* the state of run_daily's variables while find_and_process_papers is
\* explored on its own
DailyIdle ==
  /\ today = BaseDay
  /\ flags = [post_to_slack |-> FALSE, post_to_telegram |-> FALSE, post_to_zulip |-> FALSE]
  /\ sheet = <<>>
  /\ papers = <<>>
  /\ given = NoneGiven
  /\ removed = {}
  /\ written = {}

PipelineInit ==
  /\ args \in PipelineArgs
  /\ ~CtorRaises(args)
  /\ self = PapersFinderInit(args, BaseDay)
  /\ pc = "start"
  /\ disk = {}
  /\ searches = <<>>
  /\ raw = <<>>
  /\ articles = <<>>
  /\ articles_biorxiv_dict = <<>>
  /\ idx = 1
  /\ articles_with_urls = <<>>
  /\ articles_without_urls = <<>>
  /\ strategies = <<>>
  /\ lookups = <<>>
  /\ error = ""
  /\ result = EmptyFrame
  /\ DailyIdle
  /\ FilterIdle
  /\ SlackIdle
  /\ PubMedIdle

\* the exception `exc` leaves find_and_process_papers
Raise(exc) == pc' = "raised" /\ error' = exc

\* if self.query: the unified search, and the reading of its file
SearchUnified ==
  /\ pc = "start"
  /\ Truthy(self.query)
  /\ \E outcome \in SearchOutcomes, found \in ListsUpTo(RawPool, MaxPapers) :
       /\ outcome # "ok" => found = <<>>
       /\ searches' = Append(searches, SearchCall(self.search_file, self.query[1], self.databases))
       /\ disk' = DiskAfterSearch(disk, self.search_file, outcome, found)
       /\ IF outcome = "ok"
          THEN /\ articles' = found
               /\ raw' = found
               /\ pc' = "resolve"
               /\ error' = error
          ELSE /\ Raise(IF outcome = "raise" THEN "SearchError"
                        ELSE IF outcome = "nofile" THEN "FileNotFoundError"
                        ELSE "JSONDecodeError")
               /\ UNCHANGED <<articles, raw>>
  /\ UNCHANGED <<self, articles_biorxiv_dict, idx, articles_with_urls,
                 articles_without_urls, strategies, lookups, result>>

\* a slip in the order: the queries are checked only after the primary
\* search has been issued
MissingQuery_after_search ==
  /\ pc = "start"
  /\ ~Truthy(self.query)
  /\ ~Truthy(self.query_biorxiv) \/ ~Truthy(self.query_pub_arx)
  /\ searches' = Append(searches, SearchCall(self.search_file_pub_arx,
                             IF Truthy(self.query_pub_arx) THEN self.query_pub_arx[1] ELSE "",
                             WithoutBiorxiv(self.databases)))
  /\ disk' = DiskAfterSearch(disk, self.search_file_pub_arx, "ok", <<>>)
  /\ Raise("ValueError")
  /\ UNCHANGED <<self, raw, articles, articles_biorxiv_dict, idx,
                 articles_with_urls, articles_without_urls, strategies, lookups, result>>

\* else: if not self.query_biorxiv or not self.query_pub_arx: raise ValueError
MissingQuery ==
  /\ pc = "start"
  /\ ~Truthy(self.query)
  /\ ~Truthy(self.query_biorxiv) \/ ~Truthy(self.query_pub_arx)
  /\ Raise("ValueError")
  /\ UNCHANGED <<self, disk, searches, raw, articles, articles_biorxiv_dict, idx,
                 articles_with_urls, articles_without_urls, strategies, lookups, result>>

\* the primary search, over the databases other than biorxiv; its file is
\* read later
SearchPrimary ==
  /\ pc = "start"
  /\ ~Truthy(self.query)
  /\ Truthy(self.query_biorxiv) /\ Truthy(self.query_pub_arx)
  /\ \E outcome \in SearchOutcomes, found \in ListsUpTo(RawPool, MaxPapers) :
       /\ outcome # "ok" => found = <<>>
       /\ searches' = Append(searches, SearchCall(self.search_file_pub_arx,
                                  self.query_pub_arx[1], WithoutBiorxiv(self.databases)))
       /\ disk' = DiskAfterSearch(disk, self.search_file_pub_arx, outcome, found)
       /\ IF outcome = "raise"
          THEN Raise("SearchError")
          ELSE pc' = "primary_searched" /\ error' = error
  /\ UNCHANGED <<self, raw, articles, articles_biorxiv_dict, idx, articles_with_urls,
                 articles_without_urls, strategies, lookups, result>>

\* how many more records the bioRxiv search may return within MaxPapers
RoomLeft ==
  IF FileGood(disk, self.search_file_pub_arx)
  THEN MaxPapers - Len(FilePapers(disk, self.search_file_pub_arx)) ELSE 0

\* a slip in the bioRxiv search: no try block, a failure leaves the run
SearchBiorxiv_uncaught ==
  /\ pc = "primary_searched"
  /\ InList("biorxiv", self.databases) /\ Truthy(self.query_biorxiv)
  /\ \E outcome \in SearchOutcomes, found \in ListsUpTo(RawPool, RoomLeft) :
       /\ outcome # "ok" => found = <<>>
       /\ searches' = Append(searches, SearchCall(self.search_file_biorxiv,
                                  self.query_biorxiv[1], <<"biorxiv">>))
       /\ disk' = DiskAfterSearch(disk, self.search_file_biorxiv, outcome, found)
       /\ articles_biorxiv_dict' = IF outcome = "ok" THEN found ELSE <<>>
       /\ IF outcome \in {"raise", "malformed"}
          THEN Raise(IF outcome = "raise" THEN "SearchError" ELSE "JSONDecodeError")
          ELSE pc' = "biorxiv_done" /\ error' = error
  /\ UNCHANGED <<self, raw, articles, idx, articles_with_urls, articles_without_urls,
                 strategies, lookups, result>>

\* the bioRxiv search inside its try block: any failure leaves []
SearchBiorxiv ==
  /\ pc = "primary_searched"
  /\ InList("biorxiv", self.databases) /\ Truthy(self.query_biorxiv)
  /\ \E outcome \in SearchOutcomes, found \in ListsUpTo(RawPool, RoomLeft) :
       /\ outcome # "ok" => found = <<>>
       /\ searches' = Append(searches, SearchCall(self.search_file_biorxiv,
                                  self.query_biorxiv[1], <<"biorxiv">>))
       /\ disk' = DiskAfterSearch(disk, self.search_file_biorxiv, outcome, found)
       /\ articles_biorxiv_dict' = IF outcome = "ok" THEN found ELSE <<>>
  /\ pc' = "biorxiv_done"
  /\ UNCHANGED <<self, raw, articles, idx, articles_with_urls, articles_without_urls,
                 strategies, lookups, error, result>>

\* biorxiv is not among the databases (or has no query): no bioRxiv search
SkipBiorxiv ==
  /\ pc = "primary_searched"
  /\ ~(InList("biorxiv", self.databases) /\ Truthy(self.query_biorxiv))
  /\ articles_biorxiv_dict' = <<>>
  /\ pc' = "biorxiv_done"
  /\ UNCHANGED <<self, disk, searches, raw, articles, idx, articles_with_urls,
                 articles_without_urls, strategies, lookups, error, result>>

\* a slip in the concatenation: the bioRxiv results first
MergeResults_biorxiv_first ==
  /\ pc = "biorxiv_done"
  /\ IF ~FileExists(disk, self.search_file_pub_arx) THEN
       Raise("FileNotFoundError") /\ UNCHANGED <<articles, raw>>
     ELSE IF ~FileGood(disk, self.search_file_pub_arx) THEN
       Raise("JSONDecodeError") /\ UNCHANGED <<articles, raw>>
     ELSE
       /\ articles' = articles_biorxiv_dict \o FilePapers(disk, self.search_file_pub_arx)
       /\ raw' = articles'
       /\ pc' = "resolve"
       /\ error' = error
  /\ UNCHANGED <<self, disk, searches, articles_biorxiv_dict, idx, articles_with_urls,
                 articles_without_urls, strategies, lookups, result>>

\* the primary file is read and the two lists are concatenated
MergeResults ==
  /\ pc = "biorxiv_done"
  /\ IF ~FileExists(disk, self.search_file_pub_arx) THEN
       Raise("FileNotFoundError") /\ UNCHANGED <<articles, raw>>
     ELSE IF ~FileGood(disk, self.search_file_pub_arx) THEN
       Raise("JSONDecodeError") /\ UNCHANGED <<articles, raw>>
     ELSE
       /\ articles' = FilePapers(disk, self.search_file_pub_arx) \o articles_biorxiv_dict
       /\ raw' = articles'
       /\ pc' = "resolve"
       /\ error' = error
  /\ UNCHANGED <<self, disk, searches, articles_biorxiv_dict, idx, articles_with_urls,
                 articles_without_urls, strategies, lookups, result>>

\* one iteration of the DOI/URL loop; lookup is what get_doi_from_title
\* does if it is called
ResolveStep ==
  /\ pc = "resolve"
  /\ idx <= Len(articles)
  /\ \E lookup \in LookupOutcomes :
       LET article  == articles[idx]
           res      == ResolveArticle(article, lookup)
           resolved == [article EXCEPT !.url = Some(res.url)]
       IN IF res.raises # ""
          THEN /\ Raise(res.raises)
               /\ UNCHANGED <<articles, articles_with_urls, articles_without_urls,
                              strategies, lookups, idx>>
          ELSE /\ articles' = [articles EXCEPT ![idx] = resolved]
               /\ IF res.strategy = "fallback"
                  THEN /\ articles_without_urls' = Append(articles_without_urls, resolved)
                       /\ UNCHANGED articles_with_urls
                  ELSE /\ articles_with_urls' = Append(articles_with_urls, resolved)
                       /\ UNCHANGED articles_without_urls
               /\ strategies' = Append(strategies, res.strategy)
               /\ lookups' = IF res.looked_up
                             THEN Append(lookups, [title |-> article.title, answer |-> lookup])
                             ELSE lookups
               /\ idx' = idx + 1
               /\ UNCHANGED <<pc, error>>
  /\ UNCHANGED <<self, disk, searches, raw, articles_biorxiv_dict, result>>

\* after the loop: the groups are concatenated and normalized (the LLM and
\* the interactive filter are disabled: llm_filtering = interactive = False)
Normalize ==
  /\ pc = "resolve"
  /\ idx > Len(articles)
  /\ articles' = MergeGroups(articles_with_urls, articles_without_urls)
  /\ IF ArticlesProcessorRaises(articles')
     THEN Raise("KeyError") /\ UNCHANGED result
     ELSE /\ result' = IF articles' = <<>> THEN EmptyFrame
                       ELSE ArticlesProcessor(articles', self.today_str)
          /\ pc' = "done"
          /\ error' = error
  /\ UNCHANGED <<self, disk, searches, raw, articles_biorxiv_dict, idx,
                 articles_with_urls, articles_without_urls, strategies, lookups>>

PipelineNext ==
  \/ SearchUnified /\ UNCHANGED <<dailyVars, llmVars, slackVars, pubmedVars>>
  \/ MissingQuery /\ UNCHANGED <<dailyVars, llmVars, slackVars, pubmedVars>>
  \/ SearchPrimary /\ UNCHANGED <<dailyVars, llmVars, slackVars, pubmedVars>>
  \/ SearchBiorxiv /\ UNCHANGED <<dailyVars, llmVars, slackVars, pubmedVars>>
  \/ SkipBiorxiv /\ UNCHANGED <<dailyVars, llmVars, slackVars, pubmedVars>>
  \/ MergeResults /\ UNCHANGED <<dailyVars, llmVars, slackVars, pubmedVars>>
  \/ ResolveStep /\ UNCHANGED <<dailyVars, llmVars, slackVars, pubmedVars>>
  \/ Normalize /\ UNCHANGED <<dailyVars, llmVars, slackVars, pubmedVars>>

Spec == PipelineInit /\ [][PipelineNext]_vars

(***************************************************************************)
(* SlackPaperPublisher.  A row is the list of a frame row's values in      *)
(* column order (Python index 3 is IsPreprint, 4 Title, 6 Source, -1 URL); *)
(* a block is a record of type and text; a chat_postMessage call either    *)
(* succeeds or raises.                                                     *)
(***************************************************************************)
\* str(n) for a natural number
RECURSIVE NumStr(_)
NumStr(n) == IF n < 10 THEN Digit(n) ELSE NumStr(n \div 10) \o Digit(n % 10)

\* {paper[4]} in an f-string: the title, or "None" for a null one
TitleText(t) == IF t = None THEN "None" ELSE t[1]

\* lines 49-53: the text of one paper
FormatPaper(paper) ==
  LET emoji == IF paper[4] = "TRUE" THEN ":pencil:" ELSE ":rolled_up_newspaper:"
      source == IF Len(paper) > 6 THEN paper[7] ELSE "Unknown"
  IN emoji \o " <" \o paper[Len(paper)] \o "|" \o TitleText(paper[5]) \o "> ("
       \o source \o ")"

\* format_papers_for_slack with every row in the list of the other kind
format_papers_for_slack_swapped(rows) ==
  LET pre == SelectSeq(rows, LAMBDA paper : paper[4] = "TRUE")
      pub == SelectSeq(rows, LAMBDA paper : paper[4] # "TRUE")
  IN [papers |-> [i \in 1..Len(pre) |-> FormatPaper(pre[i])],
      preprints |-> [i \in 1..Len(pub) |-> FormatPaper(pub[i])]]

\* format_papers_for_slack: the rows whose element 3 is "TRUE" go to
\* preprints, the others to papers, each list in the order of the rows
format_papers_for_slack(rows) ==
  LET pre == SelectSeq(rows, LAMBDA paper : paper[4] = "TRUE")
      pub == SelectSeq(rows, LAMBDA paper : paper[4] # "TRUE")
  IN [papers |-> [i \in 1..Len(pub) |-> FormatPaper(pub[i])],
      preprints |-> [i \in 1..Len(pre) |-> FormatPaper(pre[i])]]

Section(text) == [type |-> "section", text |-> text]
Divider == [type |-> "divider", text |-> ""]

\* [lst[i:i+n] for i in range(0, len(lst), n)]
Slices(lst, n) ==
  [k \in 1..((Len(lst) + n - 1) \div n) |->
     SubSeq(lst, n * (k - 1) + 1, IF n * k < Len(lst) THEN n * k ELSE Len(lst))]

\* the papers of one block: batches of 3
PapersPerBlock == 3

\* lines 144-153 and 163-172: one block per batch of three texts
BatchBlocks(texts) ==
  LET batches == Slices(texts, PapersPerBlock)
  IN [k \in 1..Len(batches) |-> Section(PyJoin("\n\n", batches[k]))]

\* the spreadsheet_id the PapersFinder was built with
SpreadsheetId == "sheet1"

\* lines 123-190: the blocks of the digest (the last text without the
\* backquotes around slack-papers-app)
MessageBlocks(pub, pre, today_str, spreadsheet_id) ==
  <<Section("Good morning :coffee: Here are today's papers! Enjoy your reading! :wave:\n"),
    Divider,
    Section("*Preprints:*:point_down:")>>
  \o (IF pre # <<>> THEN BatchBlocks(pre) ELSE <<Section("No preprints found today.")>>)
  \o <<Divider, Section("*Papers:*:point_down:")>>
  \o (IF pub # <<>> THEN BatchBlocks(pub) ELSE <<Section("No papers found today.")>>)
  \o <<Divider,
       Section("*View all papers:* <https://docs.google.com/spreadsheets/d/"
                 \o spreadsheet_id \o "|Google Sheet> :books:"),
       Section("Published on " \o today_str),
       Section("Posted with slack-papers-app <https://github.com/theislab/slack_papers_bot|GitHub>")>>

\* line 193: above this many blocks the digest is sent in several messages
SlackBlockLimit == 50

\* line 73: max_blocks_per_message
max_blocks_per_message == 45

\* line 74: block_chunks
BlockChunks(blocks) == Slices(blocks, max_blocks_per_message)

\* lines 80-82: the blocks of message i (counted from 0) of n: from the
\* second message on a continuation header comes first (its text without
\* the leading emoji)
ChunkMessage(chunk, i, n) ==
  IF i > 0
  THEN <<Section("Papers digest continued (part " \o NumStr(i + 1) \o "/" \o NumStr(n) \o ")...")>>
         \o chunk
  ELSE chunk

\* a chat_postMessage call: what was sent, and whether the API call went
\* through
Call(blocks, ok) == [blocks |-> blocks, ok |-> ok]

\* the response of the k-th call
Response(k) == Some(k)

\* the number of chat_postMessage calls publish_papers_to_slack makes
NumCalls(blocks) ==
  IF Len(blocks) > SlackBlockLimit THEN Len(BlockChunks(blocks)) ELSE 1

\* publish_papers_to_slack as a function of the outcome of each call: the
\* calls made and the value returned
PublishPapersToSlack(blocks, oks) ==
  IF Len(blocks) > SlackBlockLimit
  THEN LET chunks == BlockChunks(blocks)
           good == {k \in 1..Len(chunks) : oks[k]}
       IN [posted |-> [k \in 1..Len(chunks) |->
                         Call(ChunkMessage(chunks[k], k - 1, Len(chunks)), oks[k])],
           response |-> IF good = {} THEN None
                        ELSE Response(CHOOSE k \in good : \A j \in good : j <= k)]
  ELSE [posted |-> <<Call(blocks, oks[1])>>,
        response |-> IF oks[1] THEN Response(1) ELSE None]

(***************************************************************************)
(* run_daily over consecutive days against one spreadsheet: a PapersFinder *)
(* is built each day (date.today()), then find_and_process_papers,         *)
(* update_google_sheet, the chat sinks and cleanup_files run in order.     *)
(***************************************************************************)
\* the resolver loop and the concatenation as a function of the raw list
\* and of what get_doi_from_title does for each record
RunResolver(lst, lks) ==
  LET res(i) == ResolveArticle(lst[i], lks[i])
      resolved == [i \in 1..Len(lst) |-> [lst[i] EXCEPT !.url = Some(res(i).url)]]
      positions == [i \in 1..Len(lst) |-> i]
      with_pos == SelectSeq(positions, LAMBDA i : res(i).strategy # "fallback")
      without_pos == SelectSeq(positions, LAMBDA i : res(i).strategy = "fallback")
  IN MergeGroups([k \in 1..Len(with_pos) |-> resolved[with_pos[k]]],
                 [k \in 1..Len(without_pos) |-> resolved[without_pos[k]]])

\* row_data: processed_articles.values.tolist(), a row as the list of its
\* values in column order
RowList(row) ==
  <<row.DOI, row.Date, row.PostedDate, row.IsPreprint, row.Title, row.Keywords,
    row.Source, row.Preprint, row.URL>>

\* GoogleSheetsUpdater.read_sheet_data: the rows as dicts keyed by the
\* header; update_google_sheet reads their DOI
PublishedDois(rows) == {rows[i][1] : i \in 1..Len(rows)}

\* GoogleSheetsUpdater.insert_rows(rows_data, row=2): the new rows go in
\* below the header, above the rows already there
InsertRows(rows, rows_data) == rows_data \o rows

\* a slip in update_google_sheet: no row is held back
FilterPublished_unfiltered(frame_rows, rows) == frame_rows

\* processed_articles[~processed_articles["DOI"].isin(published_dois)],
\* or all of processed_articles when the sheet is empty
FilterPublished(frame_rows, rows) ==
  IF rows # <<>>
  THEN SelectSeq(frame_rows, LAMBDA r : r.DOI \notin PublishedDois(rows))
  ELSE frame_rows

\* the records a daily search returns
DailyPool == {RecB, RecD3}

\* what get_doi_from_title does in the daily runs: it fails or finds a DOI
DailyLookups == {LookupRaise, LookupReturn(Some("10.9/z"))}

\* the since argument: absent, or a number of days
SinceValues == {None, Some(0), Some(1), Some(2)}

\* the first day of the daily runs
FirstDay == 10

DailyArgs ==
  {CtorArgs(Some("q"), None, None, since, None) : since \in SinceValues}
  \cup {CtorArgs(None, Some("qb"), Some("qp"), since, None) : since \in SinceValues}

DailyFlags ==
  {[post_to_slack |-> TRUE, post_to_telegram |-> FALSE, post_to_zulip |-> FALSE],
   [post_to_slack |-> TRUE, post_to_telegram |-> TRUE, post_to_zulip |-> TRUE]}

DailyInit ==
  /\ today = FirstDay
  /\ args \in DailyArgs
  /\ ~CtorRaises(args)
  /\ self = PapersFinderInit(args, FirstDay)
  /\ flags \in DailyFlags
  /\ pc = "start"
  /\ disk = {}
  /\ sheet = <<>>
  /\ papers = <<>>
  /\ given = NoneGiven
  /\ removed = {}
  /\ written = {}
  /\ error = ""
  /\ result = EmptyFrame
  /\ searches = <<>>
  /\ raw = <<>>
  /\ articles = <<>>
  /\ articles_biorxiv_dict = <<>>
  /\ idx = 1
  /\ articles_with_urls = <<>>
  /\ articles_without_urls = <<>>
  /\ strategies = <<>>
  /\ lookups = <<>>
  /\ FilterIdle
  /\ SlackIdle
  /\ PubMedIdle

resolverVars == <<searches, articles, articles_biorxiv_dict, idx, articles_with_urls,
                  articles_without_urls, strategies, lookups>>

\* processed_articles = self.find_and_process_papers(): the searches of
\* the configured mode write their files (with split queries the primary
\* search returns the day's records and the bioRxiv search none), the raw
\* list is resolved and normalized; a search that raises ends run_daily
\* with the exception
FindAndProcessPapers ==
  /\ pc = "start"
  /\ \E ok \in BOOLEAN, found \in ListsUpTo(DailyPool, MaxDailyPapers) :
     \E lks \in [1..Len(found) -> DailyLookups] :
       LET files == IF Truthy(self.query) THEN {self.search_file}
                    ELSE {self.search_file_pub_arx, self.search_file_biorxiv}
       IN /\ ~ok => found = <<>>
          /\ IF ok
             THEN /\ disk' = IF Truthy(self.query)
                             THEN DiskAfterSearch(disk, self.search_file, "ok", found)
                             ELSE DiskAfterSearch(
                                    DiskAfterSearch(disk, self.search_file_pub_arx, "ok", found),
                                    self.search_file_biorxiv, "ok", <<>>)
                  /\ written' = files
                  /\ raw' = found
                  /\ result' = ArticlesProcessor(RunResolver(found, lks), self.today_str)
                  /\ pc' = "found"
                  /\ error' = error
             ELSE /\ Raise("SearchError")
                  /\ UNCHANGED <<disk, written, raw, result>>
  /\ UNCHANGED <<self, today, args, flags, sheet, papers, given, removed, resolverVars>>

\* papers = self.update_google_sheet(processed_articles)
UpdateGoogleSheet ==
  /\ pc = "found"
  /\ LET filtered == FilterPublished(result.rows, sheet)
         row_data == [i \in 1..Len(filtered) |-> RowList(filtered[i])]
     IN /\ sheet' = IF row_data # <<>> THEN InsertRows(sheet, row_data) ELSE sheet
        /\ papers' = row_data
  /\ pc' = "sheet_updated"
  /\ UNCHANGED <<self, today, args, flags, disk, given, removed, written, raw, result, error,
                 resolverVars>>

\* the three chat sinks, each called with papers when its flag is set
PostToSlack ==
  /\ pc = "sheet_updated"
  /\ given' = IF flags.post_to_slack THEN [given EXCEPT !.slack = Some(papers)] ELSE given
  /\ IF flags.post_to_slack
     THEN LET lists == format_papers_for_slack(papers)
              blocks == MessageBlocks(lists.papers, lists.preprints, self.today_str,
                                      SpreadsheetId)
          IN \E oks \in [1..NumCalls(blocks) -> BOOLEAN] :
               /\ papers_list' = papers
               /\ slack_papers' = lists.papers
               /\ slack_preprints' = lists.preprints
               /\ message_blocks' = blocks
               /\ posted' = PublishPapersToSlack(blocks, oks).posted
               /\ slack_response' = PublishPapersToSlack(blocks, oks).response
               /\ slack_pc' = "returned"
               /\ UNCHANGED <<chunk_i, last_response>>
     ELSE UNCHANGED slackVars
  /\ pc' = "slack_done"
  /\ UNCHANGED <<self, today, args, flags, disk, sheet, papers, removed, written, raw, result,
                 error, resolverVars>>

PostToTelegram ==
  /\ pc = "slack_done"
  /\ given' = IF flags.post_to_telegram THEN [given EXCEPT !.telegram = Some(papers)] ELSE given
  /\ pc' = "telegram_done"
  /\ UNCHANGED <<self, today, args, flags, disk, sheet, papers, removed, written, raw, result,
                 error, resolverVars>>

PostToZulip ==
  /\ pc = "telegram_done"
  /\ given' = IF flags.post_to_zulip THEN [given EXCEPT !.zulip = Some(papers)] ELSE given
  /\ pc' = "zulip_done"
  /\ UNCHANGED <<self, today, args, flags, disk, sheet, papers, removed, written, raw, result,
                 error, resolverVars>>

\* the three files cleanup_files looks for
YesterdayFiles(obj) ==
  {PathJoin(RootDir, obj.yesterday_str \o ".json"),
   PathJoin(RootDir, obj.yesterday_str \o "_biorxiv.json"),
   PathJoin(RootDir, obj.yesterday_str \o "_pub_arx.json")}

\* self.cleanup_files(): each of the three that exists is removed
CleanupFiles ==
  /\ pc = "zulip_done"
  /\ removed' = {f.name : f \in {g \in disk : g.name \in YesterdayFiles(self)}}
  /\ disk' = {f \in disk : f.name \notin YesterdayFiles(self)}
  /\ pc' = "cleaned"
  /\ UNCHANGED <<self, today, args, flags, sheet, papers, given, written, raw, result, error,
                 resolverVars>>

\* the next day's run: a new PapersFinder with the same arguments
NextDay ==
  /\ pc \in {"cleaned", "raised"}
  /\ today < FirstDay + MaxDays - 1
  /\ today' = today + 1
  /\ self' = PapersFinderInit(args, today + 1)
  /\ pc' = "start"
  /\ error' = ""
  /\ result' = EmptyFrame
  /\ papers' = <<>>
  /\ given' = NoneGiven
  /\ removed' = {}
  /\ written' = {}
  /\ raw' = <<>>
  /\ slack_pc' = "off"
  /\ papers_list' = <<>>
  /\ slack_papers' = <<>>
  /\ slack_preprints' = <<>>
  /\ message_blocks' = <<>>
  /\ posted' = <<>>
  /\ slack_response' = None
  /\ UNCHANGED <<args, flags, disk, sheet, resolverVars, chunk_i, last_response>>

DailyNext ==
  \/ FindAndProcessPapers /\ UNCHANGED <<llmVars, slackVars, pubmedVars>>
  \/ UpdateGoogleSheet /\ UNCHANGED <<llmVars, slackVars, pubmedVars>>
  \/ PostToSlack /\ UNCHANGED <<llmVars, pubmedVars>>
  \/ PostToTelegram /\ UNCHANGED <<llmVars, slackVars, pubmedVars>>
  \/ PostToZulip /\ UNCHANGED <<llmVars, slackVars, pubmedVars>>
  \/ CleanupFiles /\ UNCHANGED <<llmVars, slackVars, pubmedVars>>
  \/ NextDay /\ UNCHANGED <<llmVars, pubmedVars>>

SpecDaily == DailyInit /\ [][DailyNext]_vars

(***************************************************************************)
(* LLMFilter: filter_articles calls is_relevant for each row of df.        *)
(***************************************************************************)
\* what the backend call does: it raises, or answers with a content that
\* may be None
BackendRaise == [kind |-> "raise", content |-> None]
BackendReply(c) == [kind |-> "reply", content |-> c]

Replies ==
  {"Yes", "NO", "not relevant", "Not Relevant.", "Reject: unrelated topic",
   "maybe", "", "Include it; not a reject"}

BackendOutcomes ==
  {BackendRaise, BackendReply(None)} \cup {BackendReply(Some(r)) : r \in Replies}

AcceptWords == {"yes", "relevant", "accept", "include", "interesting"}
RejectWords == {"no", "not relevant", "reject", "exclude", "unrelated"}

\* keywords_list, when bound: the stripped non-empty pieces of the
\* Keywords string
KeywordsList(keywords) ==
  LET pieces == PySplit(keywords, ",")
      stripped == [i \in 1..Len(pieces) |-> PyStrip(pieces[i])]
  IN SelectSeq(stripped, LAMBDA kw : kw # "")

\* lines 76-89: the user message sent to the backend
Message(title, keywords) ==
  IF keywords # "" /\ KeywordsList(keywords) # <<>>
  THEN "Title of the publication: '" \o title \o "'\nKeywords: "
       \o PyJoin(", ", KeywordsList(keywords))
  ELSE "Title of the publication: '" \o title \o "'"

Returns(b) == [kind |-> "return", value |-> b, exc |-> ""]
Raises(exc) == [kind |-> "raise", value |-> FALSE, exc |-> exc]

\* lines 128-148: the decision on the content; keywords_list is bound only
\* when keywords is truthy, and the accept and reject branches read it
DecideOnContent(content, keywords) ==
  IF content # None
  THEN LET content_lower == PyLower(content[1])
       IN IF \E word \in AcceptWords : PyIn(word, content_lower)
          THEN IF keywords = "" THEN Raises("UnboundLocalError") ELSE Returns(TRUE)
          ELSE IF \E word \in RejectWords : PyIn(word, content_lower)
          THEN IF keywords = "" THEN Raises("UnboundLocalError") ELSE Returns(FALSE)
          ELSE Returns(TRUE)
  ELSE Returns(TRUE)

\* is_relevant for a row's Keywords, with the client of the provider and
\* what its backend call does
is_relevant(provider, keywords, backend) ==
  IF provider = "ollama"
  THEN IF backend.kind = "raise" THEN Raises("BackendError")
       ELSE DecideOnContent(backend.content, keywords)
  ELSE IF backend.kind = "raise" THEN Returns(TRUE)
       ELSE DecideOnContent(backend.content, keywords)

\* the records find_and_process_papers has resolved when it reaches the
\* Normalizer: with a keyword list, a keyword string and no keyword
FilterArticles ==
  {[RecD1 EXCEPT !.url = Some("https://doi.org/10.3/w")],
   [RecB EXCEPT !.url = Some("https://www.biorxiv.org/content/10.2/y")],
   [RecD2 EXCEPT !.url = Some("https://doi.org/10.4/v")]}

\* find_and_process_papers with llm_filtering = True, at the end of the
\* DOI/URL loop; the provider name is one LLMFilter.__init__ accepts
FilterInit ==
  /\ \E name \in {"openai", "Ollama"} : llm_provider = PyLower(name)
  /\ articles \in ListsUpTo(FilterArticles, MaxFilterRows)
  /\ raw = articles
  /\ df = <<>>
  /\ llm_pc = "off"
  /\ llm_idx = 1
  /\ retained_indices = <<>>
  /\ llm_log = <<>>
  /\ llm_error = ""
  /\ filtered_df = <<>>
  /\ args = CtorArgs(Some("q"), None, None, None, None)
  /\ self = PapersFinderInit(args, BaseDay)
  /\ pc = "normalize"
  /\ disk = {}
  /\ searches = <<>>
  /\ articles_biorxiv_dict = <<>>
  /\ idx = 1
  /\ articles_with_urls = <<>>
  /\ articles_without_urls = <<>>
  /\ strategies = <<>>
  /\ lookups = <<>>
  /\ error = ""
  /\ result = EmptyFrame
  /\ DailyIdle
  /\ SlackIdle
  /\ PubMedIdle

\* lines 300-322: an empty list is returned as the empty frame at once;
\* otherwise the list is normalized and an LLMFilter is built on the frame
NormalizeAndBuildFilter ==
  /\ pc = "normalize"
  /\ IF articles = <<>>
     THEN /\ result' = EmptyFrame
          /\ pc' = "done"
          /\ UNCHANGED <<df, llm_pc>>
     ELSE /\ result' = ArticlesProcessor(articles, self.today_str)
          /\ df' = result'.rows
          /\ llm_pc' = "loop"
          /\ pc' = "filter"
  /\ UNCHANGED <<self, disk, searches, raw, articles, articles_biorxiv_dict, idx,
                 articles_with_urls, articles_without_urls, strategies, lookups, error>>
  /\ UNCHANGED <<llm_provider, llm_idx, retained_indices, llm_log, llm_error, filtered_df>>

\* lines 323-331: processed_articles = llm_filter.filter_articles() is
\* returned (interactive is False)
ReturnFiltered ==
  /\ pc = "filter"
  /\ llm_pc = "returned"
  /\ result' = [columns |-> result.columns, rows |-> filtered_df]
  /\ pc' = "done"
  /\ UNCHANGED <<self, disk, searches, raw, articles, articles_biorxiv_dict, idx,
                 articles_with_urls, articles_without_urls, strategies, lookups, error>>
  /\ UNCHANGED llmVars

\* one iteration of filter_articles' loop: is_relevant for the row, and
\* the row's index retained when it returns True; an exception of
\* is_relevant leaves filter_articles
FilterStep ==
  /\ llm_pc = "loop"
  /\ llm_idx <= Len(df)
  /\ \E backend \in BackendOutcomes :
       LET r == is_relevant(llm_provider, df[llm_idx].Keywords, backend)
       IN /\ llm_log' = Append(llm_log,
                     [message |-> Message(df[llm_idx].Title[1], df[llm_idx].Keywords),
                      backend |-> backend, outcome |-> r])
          /\ IF r.kind = "raise"
             THEN /\ llm_pc' = "raised"
                  /\ llm_error' = r.exc
                  /\ UNCHANGED <<retained_indices, llm_idx>>
             ELSE /\ retained_indices' = IF r.value THEN Append(retained_indices, llm_idx)
                                         ELSE retained_indices
                  /\ llm_idx' = llm_idx + 1
                  /\ UNCHANGED <<llm_pc, llm_error>>
  /\ UNCHANGED <<llm_provider, df, filtered_df>>

\* filtered_df = self.df.loc[retained_indices]
FilterReturn ==
  /\ llm_pc = "loop"
  /\ llm_idx > Len(df)
  /\ filtered_df' = [k \in 1..Len(retained_indices) |-> df[retained_indices[k]]]
  /\ llm_pc' = "returned"
  /\ UNCHANGED <<llm_provider, df, llm_idx, retained_indices, llm_log, llm_error>>

FilterNext ==
  \/ NormalizeAndBuildFilter /\ UNCHANGED <<dailyVars, slackVars, pubmedVars>>
  \/ FilterStep /\ UNCHANGED <<pipeVars, dailyVars, slackVars, pubmedVars>>
  \/ FilterReturn /\ UNCHANGED <<pipeVars, dailyVars, slackVars, pubmedVars>>
  \/ ReturnFiltered /\ UNCHANGED <<dailyVars, slackVars, pubmedVars>>

SpecFilter == FilterInit /\ [][FilterNext]_vars

(***************************************************************************)
(* Claims about find_and_process_papers, checked under Spec.               *)
(***************************************************************************)
\* the positions of raw, in order, whose record a strategy of the given
\* kind resolved
RawPositions == [i \in 1..Len(raw) |-> i]
DoiGroupPositions == SelectSeq(RawPositions, LAMBDA i : strategies[i] # "fallback")
FallbackPositions == SelectSeq(RawPositions, LAMBDA i : strategies[i] = "fallback")

\* C1: for a non-empty raw list the returned frame has exactly one row per
\* raw record; the rows of the records resolved by strategy 1, 2 or 3 come
\* first, then those of the fallback records, each group in input order.
C1_OneRowPerRecordDoiGroupFirst ==
  (pc = "done" /\ raw # <<>>) =>
    LET order == DoiGroupPositions \o FallbackPositions
    IN /\ Len(result.rows) = Len(raw)
       /\ Len(order) = Len(raw)
       /\ \A k \in 1..Len(raw) :
            /\ result.rows[k].Title = raw[order[k]].title
            /\ result.rows[k].PostedDate = raw[order[k]].publication_date

\* C1 witness: a fallback record ahead of a DOI-group record in the input
C1_Witness ==
  /\ pc = "done"
  /\ Len(raw) = 2
  /\ strategies = <<"fallback", "existing_doi">>
  /\ result.rows[1].Title = raw[2].title
  /\ result.rows[2].Title = raw[1].title

\* C2: the end-to-end scenario [A, B] gives two rows in that order, the
\* first with DOI 10.1/x, Source PubMed, IsPreprint false, the second with
\* DOI 10.2/y found by the URL scan, Source bioRxiv, IsPreprint true; and a
\* doi.org url a raw record already has is never replaced by a search link.
C2_EndToEndScenario ==
  /\ (pc = "done" /\ raw = <<RecA, RecB>>) =>
       /\ Len(result.rows) = 2
       /\ result.rows[1].Title = Some("A")
       /\ result.rows[1].DOI = "10.1/x"
       /\ result.rows[1].Source = "PubMed"
       /\ result.rows[1].IsPreprint = "FALSE"
       /\ result.rows[2].Title = Some("B")
       /\ result.rows[2].DOI = "10.2/y"
       /\ strategies[2] = "url_extracted"
       /\ result.rows[2].Source = "bioRxiv"
       /\ result.rows[2].IsPreprint = "TRUE"
  /\ pc = "resolve" =>
       \A i \in 1..(idx - 1) :
         (raw[i].url # None /\ PyStartsWith(raw[i].url[1], "https://doi.org/10."))
           => articles[i].url # Some(SearchUrl(raw[i]))

\* C3: the DOI column of every returned row begins with "10.".
C3_DoiColumnHasPrefix ==
  pc = "done" => \A k \in 1..Len(result.rows) : PyStartsWith(result.rows[k].DOI, "10.")

\* C5: the returned frame never holds two identical rows.
C5_NoDuplicateRows ==
  pc = "done" =>
    \A j, k \in 1..Len(result.rows) : j # k => result.rows[j] # result.rows[k]

\* which strategy-2 pattern a URL matches: 1 doi.org with /10., 2 /doi/10.
\* with a 10. suffix after the last /doi/, 3 dx.doi.org, 0 none
UrlPattern(url) ==
  IF PyIn("doi.org", url) /\ PyIn("/10.", url) THEN 1
  ELSE IF PyIn("/doi/10.", url) /\ PyStartsWith(PySplitLast(url, "/doi/"), "10.") THEN 2
  ELSE IF ~PyIn("/doi/10.", url) /\ PyIn("dx.doi.org", url) THEN 3
  ELSE 0

\* what strategy 2 makes of a URL matching pattern k
UrlByPattern(url, k) ==
  IF k = 1 THEN url
  ELSE IF k = 2 THEN "https://doi.org/" \o PySplitLast(url, "/doi/")
  ELSE PyReplace(url, "dx.doi.org", "doi.org")

UrlsOfPattern(urls, k) == {j \in 1..Len(urls) : UrlPattern(urls[j]) = k}

\* C9 as stated: strategy 2 gives the patterns priority over the list
\* order: the first doi.org-with-/10. URL wins even behind a /doi/10. or
\* dx.doi.org URL; a /doi/10. URL is used only when there is none of the
\* first kind; a dx.doi.org URL only when there is none of the first two.
C9_PatternPriorityOverListOrder ==
  pc = "resolve" =>
    \A i \in 1..(idx - 1) :
      ~Strategy1Hit(raw[i]) =>
        LET urls == GetUrls(raw[i])
            K1 == UrlsOfPattern(urls, 1)
            K2 == UrlsOfPattern(urls, 2)
            K3 == UrlsOfPattern(urls, 3)
        IN /\ K1 # {} => articles[i].url = Some(urls[SetMin(K1)])
           /\ (K1 = {} /\ K2 # {}) =>
                articles[i].url = Some(UrlByPattern(urls[SetMin(K2)], 2))
           /\ (K1 = {} /\ K2 = {} /\ K3 # {}) =>
                articles[i].url = Some(UrlByPattern(urls[SetMin(K3)], 3))

\* C9 as amended: strategy 2 takes the first URL, in list order, that
\* matches any of the three patterns, and uses it as that URL's first
\* matching pattern says (as is, rebuilt, or rewritten); the order of the
\* patterns decides only between the patterns one URL matches.
C9_FirstMatchingUrlInListOrder ==
  pc = "resolve" =>
    \A i \in 1..(idx - 1) :
      ~Strategy1Hit(raw[i]) =>
        LET urls == GetUrls(raw[i])
            J == {j \in 1..Len(urls) : UrlPattern(urls[j]) # 0}
        IN IF J = {} THEN strategies[i] # "url_extracted"
           ELSE /\ strategies[i] = "url_extracted"
                /\ articles[i].url =
                     Some(UrlByPattern(urls[SetMin(J)], UrlPattern(urls[SetMin(J)])))

\* C9 witness: a /doi/10. URL ahead of a doi.org URL, the former rebuilt
C9_Witness ==
  /\ pc = "resolve"
  /\ idx = 2
  /\ GetUrls(raw[1]) = <<"https://pub.org/doi/10.5/a", "https://doi.org/10.6/b">>
  /\ ~Strategy1Hit(raw[1])
  /\ articles[1].url = Some("https://doi.org/10.5/a")

\* s with only a leading doi: prefix and the surrounding whitespace removed
LeadingPrefixStripped(s) ==
  LET t == PyStrip(s)
  IN PyStrip(IF PyStartsWith(t, "doi:") THEN PySliceFrom(t, 4) ELSE t)

\* C10: a record carrying a DOI string s whose d (s less a leading doi:
\* and surrounding whitespace) begins with "10." is resolved by strategy 1:
\* its URL is https://doi.org/ + d, it is in the DOI group, no lookup is
\* made for it, and its DOI column is d.
C10_ExistingDoiWinsFirst ==
  pc = "done" =>
    \A i \in 1..Len(raw) :
      LET s == ExistingDoi(raw[i])
      IN (Truthy(s) /\ PyStartsWith(LeadingPrefixStripped(s[1]), "10.")) =>
           LET d == LeadingPrefixStripped(s[1])
           IN /\ strategies[i] = "existing_doi"
              /\ \A j \in 1..Len(lookups) : lookups[j].title # raw[i].title
              /\ \E k \in 1..Len(result.rows) :
                   /\ result.rows[k].Title = raw[i].title
                   /\ result.rows[k].URL = "https://doi.org/" \o d
                   /\ result.rows[k].DOI = d

\* C29: every record in the 'has proper DOI' group has a URL that begins
\* with https://doi.org/10., whatever its candidate URLs were, and the DOI
\* column of its row begins with "10.".
C29_DoiGroupUrlIsDoiOrgLink ==
  /\ \A k \in 1..Len(articles_with_urls) :
       /\ articles_with_urls[k].url # None
       /\ PyStartsWith(articles_with_urls[k].url[1], "https://doi.org/10.")
  /\ pc = "done" =>
       \A k \in 1..Len(articles_with_urls) : PyStartsWith(result.rows[k].DOI, "10.")

(***************************************************************************)
(* Claims about run_daily over consecutive days, checked under SpecDaily.  *)
(***************************************************************************)
\* C4: after any sequence of runs against the same spreadsheet no DOI
\* occurs in more than one of its rows.
C4_NoDoiTwiceInSheet ==
  \A j, k \in 1..Len(sheet) : j # k => sheet[j][1] # sheet[k][1]

\* the three search-result files named for a day
FilesOfDay(day) ==
  {PathJoin(RootDir, StrfDate(day) \o ".json"),
   PathJoin(RootDir, StrfDate(day) \o "_biorxiv.json"),
   PathJoin(RootDir, StrfDate(day) \o "_pub_arx.json")}

\* C6: whatever since is, cleanup_files deletes only files named for the
\* day before the run, never a file the current run wrote, and once the
\* run of a day is complete no file of the day before is left.
C6_CleanupRemovesOnlyPreviousDay ==
  pc = "cleaned" =>
    /\ removed \subseteq FilesOfDay(today - 1)
    /\ \A f \in written : FileExists(disk, f)
    /\ \A f \in FilesOfDay(today - 1) : ~FileExists(disk, f)

(***************************************************************************)
(* Claims about LLMFilter, checked under SpecFilter.                       *)
(***************************************************************************)
HasRejectPhrase(c) == \E w \in {"no", "not relevant", "reject", "exclude", "unrelated"} : PyIn(w, PyLower(c))

\* C7: whenever is_relevant decides on a reply, a reply containing a
\* reject phrase ("not relevant" among them) is rejected, a reply with an
\* accept phrase and no reject phrase is accepted, and a reply with none
\* of the ten phrases, an empty reply and a missing reply are accepted.
C7_RejectPhraseRejects ==
  \A k \in 1..Len(llm_log) :
    LET e == llm_log[k]
    IN (e.backend.kind = "reply" /\ e.outcome.kind = "return") =>
         IF e.backend.content = None THEN e.outcome.value = TRUE
         ELSE IF HasRejectPhrase(e.backend.content[1]) THEN e.outcome.value = FALSE
         ELSE e.outcome.value = TRUE

\* C8: for openai and for ollama, a backend call that raises makes
\* is_relevant return accept: the exception does not leave
\* filter_articles and the loop goes on to the next record.
C8_FailOpenForEveryProvider ==
  /\ llm_error # "BackendError"
  /\ \A k \in 1..Len(llm_log) :
       llm_log[k].backend.kind = "raise" =>
         /\ llm_log[k].outcome = Returns(TRUE)
         /\ llm_pc = "loop" => llm_idx > k

(***************************************************************************)
(* Claims about the lookup, the search dispatch and the merge, checked     *)
(* under Spec.                                                             *)
(***************************************************************************)
\* the records strategies 1 and 2 leave unresolved and that are tagged PubMed
NeedsLookup(article) ==
  /\ InList("PubMed", article.databases)
  /\ ~Strategy1Hit(article)
  /\ ~Truthy(ScanDoiUrl(GetUrls(article), 1))

\* the positions of raw the loop has gone through whose record needs the lookup
LookupPositions ==
  SelectSeq([i \in 1..Len(strategies) |-> i], LAMBDA i : NeedsLookup(raw[i]))

\* the call raised, or returned nothing that holds a 10.-prefixed DOI
\* (as it is, or once the doi: label and the blanks around it are removed)
LookupFailed(answer) ==
  \/ answer.kind = "raise"
  \/ ~Truthy(answer.doi)
  \/ /\ ~PyStartsWith(answer.doi[1], "10.")
     /\ ~PyStartsWith(CleanDoi(answer.doi[1]), "10.")

\* how many records up to position p fell back: the place of record p in
\* the fallback group
FallbackRank(p) == Cardinality({i \in 1..p : strategies[i] = "fallback"})

\* C11: get_doi_from_title is called exactly for the records tagged PubMed
\* that strategies 1 and 2 left unresolved, once each and in order; when
\* the call raises or returns no 10.-prefixed DOI the record gets its
\* strategy-4 URL and joins the fallback group, and the loop goes on: at
\* the end every raw record has been resolved and has its row.
C11_LookupOnlyForPubMedFailureFallsBack ==
  /\ pc \in {"resolve", "done"} =>
       /\ Len(lookups) = Len(LookupPositions)
       /\ \A k \in 1..Len(lookups) :
            LET p == LookupPositions[k]
                fallback_url == IF Truthy(BestUrl(GetUrls(raw[p]), 1))
                                THEN BestUrl(GetUrls(raw[p]), 1)[1]
                                ELSE SearchUrl(raw[p])
            IN /\ lookups[k].title = raw[p].title
               /\ LookupFailed(lookups[k].answer) =>
                    /\ strategies[p] = "fallback"
                    /\ FallbackRank(p) <= Len(articles_without_urls)
                    /\ articles_without_urls[FallbackRank(p)]
                         = [raw[p] EXCEPT !.url = Some(fallback_url)]
  /\ (pc = "resolve" /\ lookups # <<>>) => error = ""
  /\ (pc = "done" /\ lookups # <<>>) =>
       /\ error = ""
       /\ Len(strategies) = Len(raw)
       /\ Len(result.rows) = Len(raw)

\* C11 witness: the lookup raised for the first record, which fell back,
\* and the second record was still looked up and resolved
C11_Witness ==
  /\ pc = "done"
  /\ Len(raw) = 2
  /\ Len(lookups) = 2
  /\ lookups[1].answer = LookupRaise
  /\ strategies = <<"fallback", "api_found">>
  /\ Len(result.rows) = 2

\* the run was configured with no unified query and without one of the
\* split queries (None and "" alike)
QueryMissing ==
  /\ ~Truthy(args.query)
  /\ ~Truthy(args.query_biorxiv) \/ ~Truthy(args.query_pubmed_arxiv)

BiorxivOnly ==
  /\ self.databases = <<"biorxiv">>
  /\ Truthy(args.query_biorxiv)
  /\ ~Truthy(args.query)
  /\ ~Truthy(args.query_pubmed_arxiv)

\* C13: a PapersFinder for bioRxiv alone completes find_and_process_papers
\* without raising, and returns the rows of the bioRxiv search results.
C13_BiorxivOnlyRunCompletes ==
  BiorxivOnly =>
    /\ pc # "raised"
    /\ error = ""
    /\ pc = "done" =>
         /\ raw = articles_biorxiv_dict
         /\ Len(result.rows) = Len(articles_biorxiv_dict)

\* is p a prefix of q
IsPrefix(p, q) == Len(p) <= Len(q) /\ p = SubSeq(q, 1, Len(p))

\* the searches the claim expects of the configuration, in order
ExpectedSearches ==
  IF Truthy(self.query)
  THEN <<[file |-> self.search_file, query |-> self.query[1], databases |-> self.databases]>>
  ELSE <<[file |-> self.search_file_pub_arx, query |-> self.query_pub_arx[1],
          databases |-> SelectSeq(self.databases, LAMBDA db : db # "biorxiv")]>>
       \o (IF \E i \in 1..Len(self.databases) : self.databases[i] = "biorxiv"
           THEN <<[file |-> self.search_file_biorxiv, query |-> self.query_biorxiv[1],
                   databases |-> <<"biorxiv">>]>>
           ELSE <<>>)

\* C14: with a unified query exactly one search is issued, over all the
\* requested databases with that query; without it the primary search is
\* issued with the PubMed/arXiv query over the requested databases less
\* biorxiv, then a bioRxiv-only search with the bioRxiv query if and only
\* if biorxiv is requested; the primary search comes first.
C14_SearchDispatch ==
  /\ searches # <<>> => IsPrefix(searches, ExpectedSearches)
  /\ pc \in {"biorxiv_done", "resolve", "done"} => searches = ExpectedSearches

\* C14 witness: a finished split-query run over pubmed, arxiv and biorxiv
\* that issued the primary search and then the bioRxiv search
C14_Witness ==
  /\ pc = "done"
  /\ ~Truthy(self.query)
  /\ Len(searches) = 2
  /\ searches[1].databases = <<"pubmed", "arxiv">>
  /\ searches[1].query = "qp"
  /\ searches[2].databases = <<"biorxiv">>
  /\ searches[2].query = "qb"

\* the run searches with the split queries
SplitMode ==
  /\ ~Truthy(self.query)
  /\ Truthy(self.query_biorxiv)
  /\ Truthy(self.query_pub_arx)

\* the bioRxiv search was issued and left no readable result file: it
\* raised, wrote no file, or wrote a file that does not parse
BiorxivFailed ==
  /\ Len(searches) = 2
  /\ ~FileGood(disk, self.search_file_biorxiv)

\* C15: with split queries a failed bioRxiv search (a raise, no file, a
\* malformed file) does not end the run, and the merged raw list is then
\* exactly the primary results; a failed primary search, or a primary
\* file that is missing or malformed, ends the run with the exception.
C15_BiorxivFailureCaughtPrimaryPropagates ==
  SplitMode =>
    /\ pc = "biorxiv_done" => error = ""
    /\ (pc \in {"resolve", "done"} /\ BiorxivFailed) =>
         /\ error = ""
         /\ raw = FilePapers(disk, self.search_file_pub_arx)
    /\ error \in {"SearchError", "FileNotFoundError", "JSONDecodeError"} =>
         /\ pc = "raised"
         /\ ~FileGood(disk, self.search_file_pub_arx)
    /\ (pc = "raised" /\ strategies = <<>> /\ articles = <<>>) =>
         error \in {"SearchError", "FileNotFoundError", "JSONDecodeError"}
    /\ (searches # <<>> /\ ~FileGood(disk, self.search_file_pub_arx)) =>
         pc \in {"raised", "primary_searched", "biorxiv_done"}

\* C15 witness: the bioRxiv search failed, the run finished, and its rows
\* are those of the primary results
C15_Witness ==
  /\ SplitMode
  /\ pc = "done"
  /\ BiorxivFailed
  /\ raw # <<>>
  /\ raw = FilePapers(disk, self.search_file_pub_arx)
  /\ Len(result.rows) = Len(raw)

\* what the bioRxiv search returned: the papers of its file, nothing when
\* it was not issued or failed
BiorxivResults ==
  IF FileGood(disk, self.search_file_biorxiv)
  THEN FilePapers(disk, self.search_file_biorxiv) ELSE <<>>

\* C16: with split queries the merged raw list is the primary results
\* followed by the bioRxiv results, each in the order its search returned
\* it, nothing added, dropped or reordered.
C16_MergeIsPrimaryThenBiorxiv ==
  (SplitMode /\ pc \in {"resolve", "done"}) =>
    raw = FilePapers(disk, self.search_file_pub_arx) \o BiorxivResults

\* C16 witness: both searches returned a record, not the same one
C16_Witness ==
  /\ SplitMode
  /\ pc = "done"
  /\ Len(FilePapers(disk, self.search_file_pub_arx)) = 1
  /\ Len(BiorxivResults) = 1
  /\ BiorxivResults # FilePapers(disk, self.search_file_pub_arx)
  /\ raw = FilePapers(disk, self.search_file_pub_arx) \o BiorxivResults

(***************************************************************************)
(* Claims about the Normalizer's rows, checked under Spec.                 *)
(***************************************************************************)
\* C17: every returned row has a non-null Title and a non-null URL, also
\* for a raw record without a title or without a urls key; a record
\* without any real link has a synthesized search link as its URL.
C17_NonNullTitleAndUrl ==
  pc = "done" =>
    /\ \A k \in 1..Len(result.rows) :
         /\ result.rows[k].Title # None
         /\ result.rows[k].URL # ""
    /\ \A i \in 1..Len(raw) :
         (strategies[i] = "fallback" /\ ~Truthy(BestUrl(GetUrls(raw[i]), 1))) =>
           \E k \in 1..Len(result.rows) :
             /\ result.rows[k].Title = raw[i].title
             /\ result.rows[k].URL = SearchUrl(raw[i])

\* the 1-based positions of url at which "10." begins
TenDotPositions(url) == {q \in 1..(Len(url) - 2) : SubSeq(url, q, q + 2) = "10."}

\* C18: for a row whose URL contains "10." the DOI column is the suffix of
\* the URL from the first "10." on, so that https://doi.org/ + d with d
\* beginning "10." gives d; a URL without "10." raises nothing and its
\* row is emitted all the same: a finished run has a row for every record.
C18_DoiIsSuffixFromFirstTenDot ==
  pc = "done" =>
    /\ Len(result.rows) = Len(raw)
    /\ \A k \in 1..Len(result.rows) :
         LET url == result.rows[k].URL
             doi == result.rows[k].DOI
         IN /\ TenDotPositions(url) # {} =>
                 /\ Len(url) - Len(doi) + 1 \in TenDotPositions(url)
                 /\ \A q \in TenDotPositions(url) : q >= Len(url) - Len(doi) + 1
                 /\ doi = SubSeq(url, Len(url) - Len(doi) + 1, Len(url))
            /\ (PyStartsWith(url, "https://doi.org/10.")) =>
                 url = "https://doi.org/" \o doi

\* C18 witness: a row whose URL holds "10." twice, and a row whose URL
\* holds none
C18_Witness ==
  /\ pc = "done"
  /\ \E j, k \in 1..Len(result.rows) :
       /\ Cardinality(TenDotPositions(result.rows[j].URL)) = 2
       /\ PyStartsWith(result.rows[j].DOI, "10.7/")
       /\ TenDotPositions(result.rows[k].URL) = {}

\* the cleaning of one list element as the claim has it: a two-character
\* marker [" or [' is cut, else a one-character marker [, " or '
ClaimedClean(kw) ==
  LET first(n) == IF Len(kw) >= n THEN SubSeq(kw, 1, n) ELSE ""
      rest(n)  == SubSeq(kw, n + 1, Len(kw))
  IN IF first(2) \in {"[\"", "['"} THEN rest(2)
     ELSE IF first(1) \in {"[", "\"", "'"} THEN rest(1)
     ELSE kw

\* the Keywords the claim expects of a raw record, given the cleaning of
\* an element
ExpectedKeywords(article, Clean(_)) ==
  IF article.kw_kind = "list"
  THEN PyJoin(", ", [i \in 1..Len(article.kw_list) |-> Clean(article.kw_list[i])])
  ELSE IF article.kw_kind = "str" THEN article.kw_str
  ELSE ""

\* the raw record of the k-th returned row
RowOrder == DoiGroupPositions \o FallbackPositions

\* C19 as claimed: every list element loses its marker, whatever its
\* length; the elements are joined with ", "; a string passes through
\* unchanged; any other value gives "".
C19_KeywordCleaningAnyLength ==
  pc = "done" =>
    \A k \in 1..Len(result.rows) :
      result.rows[k].Keywords = ExpectedKeywords(raw[RowOrder[k]], ClaimedClean)

\* the cleaning the code does: only an element of more than 2 characters
\* loses its marker
GuardedClean(kw) == IF Len(kw) > 2 THEN ClaimedClean(kw) ELSE kw

\* C19 amended: every list element of more than 2 characters loses its
\* two-character or else one-character marker, an element of at most 2
\* characters is kept as it is; the elements are joined with ", "; a
\* string passes through unchanged; any other value gives "".
C19_KeywordCleaningLongerThanTwo ==
  pc = "done" =>
    \A k \in 1..Len(result.rows) :
      result.rows[k].Keywords = ExpectedKeywords(raw[RowOrder[k]], GuardedClean)

\* C19 witness: rows of a list with markers cut, of a list of short
\* elements kept, of a string and of a null
C19_Witness ==
  /\ pc = "done"
  /\ \E k \in 1..Len(result.rows) :
       result.rows[k].Keywords \in {"tag1, tag2", "tag, q1, deep, plain"}
  /\ \E k \in 1..Len(result.rows) :
       \/ result.rows[k].Keywords = "\"a, [\", ["
       \/ raw[RowOrder[k]].kw_kind \in {"str", "other"}

\* C20: the IsPreprint of a row is "FALSE" if and only if the databases
\* list of its raw record holds the tag "PubMed", and "TRUE" otherwise.
C20_IsPreprintIffNotPubMed ==
  pc = "done" =>
    \A k \in 1..Len(result.rows) :
      LET dbs == raw[RowOrder[k]].databases
          tagged == \E i \in 1..Len(dbs) : dbs[i] = "PubMed"
      IN /\ result.rows[k].IsPreprint \in {"TRUE", "FALSE"}
         /\ result.rows[k].IsPreprint = "FALSE" <=> tagged

\* C20 witness: a row of a record tagged PubMed beside a row of a record
\* tagged arXiv and PubMed Central
C20_Witness ==
  /\ pc = "done"
  /\ Len(result.rows) = 2
  /\ \E j, k \in 1..2 :
       /\ result.rows[j].IsPreprint = "FALSE"
       /\ result.rows[k].IsPreprint = "TRUE"
       /\ raw[RowOrder[k]].databases = <<"arXiv", "PubMed Central">>

\* C21: the Source of a row is "PubMed" if PubMed is among the tags of its
\* raw record, else "bioRxiv" if that is a tag, else "ArXiv" if that is a
\* tag, else the first tag, else "Unknown" for an empty list.
C21_SourceByPriority ==
  pc = "done" =>
    \A k \in 1..Len(result.rows) :
      LET dbs == raw[RowOrder[k]].databases
          has(tag) == \E i \in 1..Len(dbs) : dbs[i] = tag
          source == result.rows[k].Source
      IN /\ has("PubMed") => source = "PubMed"
         /\ (~has("PubMed") /\ has("bioRxiv")) => source = "bioRxiv"
         /\ (~has("PubMed") /\ ~has("bioRxiv") /\ has("ArXiv")) => source = "ArXiv"
         /\ (~has("PubMed") /\ ~has("bioRxiv") /\ ~has("ArXiv") /\ Len(dbs) > 0)
              => source = dbs[1]
         /\ Len(dbs) = 0 => source = "Unknown"

\* C21 witness: a row of a record whose PubMed tag is not its first tag
\* beside a row of a record with no tag
C21_Witness ==
  /\ pc = "done"
  /\ \E j, k \in 1..Len(result.rows) :
       /\ raw[RowOrder[j]].databases = <<"Scopus", "PubMed">>
       /\ result.rows[j].Source = "PubMed"
       /\ raw[RowOrder[k]].databases = <<>>
       /\ result.rows[k].Source = "Unknown"

(***************************************************************************)
(* post_paper_to_slack on its own, step by step: the rows are formatted,   *)
(* the digest's blocks are built, and the blocks are posted in one message *)
(* or, above SlackBlockLimit, in chunks.  Every chat_postMessage call      *)
(* succeeds or raises.  The channel id is the configured channel.          *)
(***************************************************************************)
\* the largest number of rows posted
MaxSlackRows == 246

\* which rows are preprints
SlackPatterns == {"preprints", "papers", "alternate"}

\* row i of a list: a row of the frame as update_google_sheet returns it
SlackRow(i, pattern) ==
  LET preprint == pattern = "preprints" \/ (pattern = "alternate" /\ i % 2 = 1)
  IN <<"10.1/" \o NumStr(i), "2024-06-10", "2024-06-10",
       IF preprint THEN "TRUE" ELSE "FALSE", Some("T" \o NumStr(i)), "",
       IF preprint THEN "bioRxiv" ELSE "PubMed", "",
       "https://doi.org/10.1/" \o NumStr(i)>>

SlackInit ==
  /\ \E n \in 0..MaxSlackRows, pattern \in SlackPatterns :
       papers_list = [i \in 1..n |-> SlackRow(i, pattern)]
  /\ slack_pc = "start"
  /\ slack_papers = <<>>
  /\ slack_preprints = <<>>
  /\ message_blocks = <<>>
  /\ chunk_i = 0
  /\ posted = <<>>
  /\ last_response = None
  /\ slack_response = None
  /\ args = CtorArgs(Some("q"), None, None, None, None)
  /\ self = PapersFinderInit(args, BaseDay)
  /\ pc = "posting"
  /\ disk = {}
  /\ searches = <<>>
  /\ raw = <<>>
  /\ articles = <<>>
  /\ articles_biorxiv_dict = <<>>
  /\ idx = 1
  /\ articles_with_urls = <<>>
  /\ articles_without_urls = <<>>
  /\ strategies = <<>>
  /\ lookups = <<>>
  /\ error = ""
  /\ result = EmptyFrame
  /\ DailyIdle
  /\ FilterIdle
  /\ PubMedIdle

\* papers_pub, preprints = self.slack_publisher.format_papers_for_slack(papers)
FormatPapers ==
  /\ slack_pc = "start"
  /\ slack_papers' = format_papers_for_slack(papers_list).papers
  /\ slack_preprints' = format_papers_for_slack(papers_list).preprints
  /\ slack_pc' = "formatted"
  /\ UNCHANGED <<papers_list, message_blocks, chunk_i, posted, last_response, slack_response>>

\* publish_papers_to_slack, lines 123-196: the blocks are built; more than
\* SlackBlockLimit blocks go to _send_multiple_slack_messages
BuildBlocks ==
  /\ slack_pc = "formatted"
  /\ message_blocks' = MessageBlocks(slack_papers, slack_preprints, self.today_str,
                                     SpreadsheetId)
  /\ slack_pc' = IF Len(message_blocks') > SlackBlockLimit THEN "chunks" ELSE "single"
  /\ UNCHANGED <<papers_list, slack_papers, slack_preprints, chunk_i, posted, last_response,
                 slack_response>>

\* lines 198-213: the one chat_postMessage call; an exception is caught
\* and None returned
PostSingle ==
  /\ slack_pc = "single"
  /\ \E ok \in BOOLEAN :
       /\ posted' = Append(posted, Call(message_blocks, ok))
       /\ slack_response' = IF ok THEN Response(Len(posted) + 1) ELSE None
  /\ slack_pc' = "returned"
  /\ UNCHANGED <<papers_list, slack_papers, slack_preprints, message_blocks, chunk_i,
                 last_response>>

\* a loop of _send_multiple_slack_messages that a failed call ends
PostChunk_stop_on_failure ==
  /\ slack_pc = "chunks"
  /\ chunk_i < Len(BlockChunks(message_blocks))
  /\ \E ok \in BOOLEAN :
       LET chunks == BlockChunks(message_blocks)
           chunk == ChunkMessage(chunks[chunk_i + 1], chunk_i, Len(chunks))
       IN /\ posted' = Append(posted, Call(chunk, ok))
          /\ last_response' = IF ok THEN Response(Len(posted) + 1) ELSE last_response
          /\ chunk_i' = IF ok THEN chunk_i + 1 ELSE Len(chunks)
  /\ UNCHANGED <<slack_pc, papers_list, slack_papers, slack_preprints, message_blocks,
                 slack_response>>

\* lines 77-99: one iteration of _send_multiple_slack_messages' loop; an
\* exception of the call is caught and the loop goes on
PostChunk ==
  /\ slack_pc = "chunks"
  /\ chunk_i < Len(BlockChunks(message_blocks))
  /\ \E ok \in BOOLEAN :
       LET chunks == BlockChunks(message_blocks)
           chunk == ChunkMessage(chunks[chunk_i + 1], chunk_i, Len(chunks))
       IN /\ posted' = Append(posted, Call(chunk, ok))
          /\ last_response' = IF ok THEN Response(Len(posted) + 1) ELSE last_response
  /\ chunk_i' = chunk_i + 1
  /\ UNCHANGED <<slack_pc, papers_list, slack_papers, slack_preprints, message_blocks,
                 slack_response>>

\* line 101: return last_response
ReturnChunks ==
  /\ slack_pc = "chunks"
  /\ chunk_i = Len(BlockChunks(message_blocks))
  /\ slack_response' = last_response
  /\ slack_pc' = "returned"
  /\ UNCHANGED <<papers_list, slack_papers, slack_preprints, message_blocks, chunk_i, posted,
                 last_response>>

SlackNext ==
  \/ FormatPapers /\ UNCHANGED <<pipeVars, dailyVars, llmVars, pubmedVars>>
  \/ BuildBlocks /\ UNCHANGED <<pipeVars, dailyVars, llmVars, pubmedVars>>
  \/ PostSingle /\ UNCHANGED <<pipeVars, dailyVars, llmVars, pubmedVars>>
  \/ PostChunk /\ UNCHANGED <<pipeVars, dailyVars, llmVars, pubmedVars>>
  \/ ReturnChunks /\ UNCHANGED <<pipeVars, dailyVars, llmVars, pubmedVars>>

SpecSlack == SlackInit /\ [][SlackNext]_vars

\* the positions of the rows that satisfy P, in order
PositionsWhere(rows, P(_)) ==
  SelectSeq([i \in 1..Len(rows) |-> i], LAMBDA i : P(rows[i]))

\* the raw record of this run a row was made from (the titles of a day's
\* records tell them apart)
RawOf(row) == CHOOSE r \in {raw[i] : i \in 1..Len(raw)} : r.title = row[5]

SheetBefore == SubSeq(sheet, Len(papers) + 1, Len(sheet))

C22_NineColumnsAndEmptyInput ==
  /\ pc \in {"filter", "done"} =>
       result.columns = <<"DOI", "Date", "PostedDate", "IsPreprint", "Title",
                          "Keywords", "Source", "Preprint", "URL">>
  /\ raw = <<>> =>
       /\ pc \in {"normalize", "done"}
       /\ result.rows = <<>>
       /\ error = ""
       /\ llm_error = ""
       /\ llm_log = <<>>
       /\ llm_pc = "off"

\* C22 witness: the run on an empty list has returned
C22_Witness ==
  /\ raw = <<>>
  /\ pc = "done"
  /\ result.rows = <<>>
  /\ Len(result.columns) = 9

\* C26: for every record, also one whose Keywords value is empty, and for
\* every reply of the backend (accept word, reject word, neither),
\* is_relevant returns true or false and raises nothing, so filter_articles
\* goes through all the records and returns.
C26_DecisionForEveryReply ==
  /\ \A k \in 1..Len(llm_log) :
       llm_log[k].backend.kind = "reply" => llm_log[k].outcome.kind = "return"
  /\ llm_error # "UnboundLocalError"
  /\ llm_pc = "returned" => Len(llm_log) = Len(df)

(***************************************************************************)
(* Claims about the Slack post, checked under SpecSlack.                   *)
(***************************************************************************)
\* the blocks of all the messages posted, in the order posted
RECURSIVE BlocksPosted(_)
BlocksPosted(calls) ==
  IF calls = <<>> THEN <<>> ELSE calls[1].blocks \o BlocksPosted(Tail(calls))

\* a block that is a continuation header
IsContinuationHeader(block) ==
  block.type = "section" /\ PyStartsWith(block.text, "Papers digest continued")

\* the number of messages a digest of n blocks takes
MessagesFor(n) == IF n > 50 THEN (n + 44) \div 45 ELSE 1

C23_SinkFailureSignalledByReturnValue ==
  (slack_pc = "returned" /\ \E k \in 1..Len(posted) : ~posted[k].ok)
    => slack_response = None

(***************************************************************************)
(* PubMedClient.get_doi_from_title, request by request.  Every request     *)
(* gets one of the outcomes the service and the network can produce.  The  *)
(* branch for a 429 response inside the esearch loop is not reachable      *)
(* (raise_for_status has raised for it before), so a rate-limited esearch  *)
(* is a RequestException.                                                  *)
(***************************************************************************)
\* the largest n_retries explored
MaxRetries == 3

\* what one esearch request can do: requests.get or raise_for_status
\* raises a RequestException (time-out, connection error, HTTP error,
\* 429); parsing the reply raises KeyError, IndexError or ValueError;
\* something else is raised (a reply that is not a JSON object); the
\* reply has no "esearchresult"; its idlist is empty; it has an id
EsearchOutcomes ==
  {"request_exception", "parse_error", "other_exception", "no_esearchresult",
   "empty_idlist", "id"}

\* what the first efetch request can do: requests.get raises; the
\* response has status 429; raise_for_status raises; the content is not
\* XML; the XML has no ELocationID of type doi; it has one
EfetchOutcomes ==
  {"request_exception", "status_429", "http_error", "bad_xml", "no_doi", "doi"}

Request(kind, outcome) == [kind |-> kind, outcome |-> outcome]

\* the DOI text of the answer's ELocationID
FetchedDoi == "10.9/z"

PubMedInit ==
  /\ n_retries \in 0..MaxRetries
  /\ doi_pc = "esearch"
  /\ attempt = 0
  /\ pubmed_id = None
  /\ requests_log = <<>>
  /\ doi_result = None
  /\ doi_error = ""
  /\ args = CtorArgs(Some("q"), None, None, None, None)
  /\ self = PapersFinderInit(args, BaseDay)
  /\ pc = "lookup"
  /\ disk = {}
  /\ searches = <<>>
  /\ raw = <<>>
  /\ articles = <<>>
  /\ articles_biorxiv_dict = <<>>
  /\ idx = 1
  /\ articles_with_urls = <<>>
  /\ articles_without_urls = <<>>
  /\ strategies = <<>>
  /\ lookups = <<>>
  /\ error = ""
  /\ result = EmptyFrame
  /\ DailyIdle
  /\ FilterIdle
  /\ SlackIdle

\* return value: the function is left with this value
DoiReturn(value) ==
  /\ doi_result' = value
  /\ doi_pc' = "returned"

\* lines 161-214: one iteration of `for _ in range(n_retries)`
Esearch ==
  /\ doi_pc = "esearch"
  /\ attempt < n_retries
  /\ \E outcome \in EsearchOutcomes :
       /\ requests_log' = Append(requests_log, Request("esearch", outcome))
       /\ CASE outcome \in {"request_exception", "other_exception"} ->
                 IF attempt = n_retries - 1
                 THEN DoiReturn(None) /\ UNCHANGED <<attempt, pubmed_id>>
                 ELSE attempt' = attempt + 1 /\ UNCHANGED <<doi_pc, doi_result, pubmed_id>>
            [] outcome \in {"parse_error", "no_esearchresult", "empty_idlist"} ->
                 DoiReturn(None) /\ UNCHANGED <<attempt, pubmed_id>>
            [] outcome = "id" ->
                 /\ pubmed_id' = Some("38000001")
                 /\ doi_pc' = "efetch"
                 /\ UNCHANGED <<attempt, doi_result>>
  /\ UNCHANGED <<n_retries, doi_error>>

\* the loop ends without a break (n_retries is 0): pubmed_id is unbound,
\* with fetch_url built outside the try the UnboundLocalError leaves the
\* function
LoopExhausted_outside_try ==
  /\ doi_pc = "esearch"
  /\ attempt >= n_retries
  /\ doi_error' = "UnboundLocalError"
  /\ doi_pc' = "raised"
  /\ UNCHANGED <<n_retries, attempt, pubmed_id, requests_log, doi_result>>

\* the loop ends without a break (n_retries is 0): pubmed_id is unbound,
\* building fetch_url (line 220, inside the try) raises UnboundLocalError,
\* which `except (ET.ParseError, Exception)` catches: None is returned and
\* no efetch request is made
LoopExhausted ==
  /\ doi_pc = "esearch"
  /\ attempt >= n_retries
  /\ DoiReturn(None)
  /\ UNCHANGED <<n_retries, attempt, pubmed_id, requests_log, doi_error>>

\* what is returned once a response with a good status has arrived:
\* lines 229-238
AfterFetch(outcome) ==
  IF outcome = "doi" THEN DoiReturn(Some(FetchedDoi)) ELSE DoiReturn(None)

\* lines 219-229: the efetch request; a 429 response is followed by a
\* second request
Efetch ==
  /\ doi_pc = "efetch"
  /\ \E outcome \in EfetchOutcomes :
       /\ requests_log' = Append(requests_log, Request("efetch", outcome))
       /\ IF outcome = "status_429"
          THEN doi_pc' = "efetch_again" /\ UNCHANGED doi_result
          ELSE AfterFetch(outcome)
  /\ UNCHANGED <<n_retries, attempt, pubmed_id, doi_error>>

\* line 227: the second efetch request; whatever its outcome (a 429 again
\* makes raise_for_status raise) the function returns
EfetchAgain ==
  /\ doi_pc = "efetch_again"
  /\ \E outcome \in EfetchOutcomes :
       /\ requests_log' = Append(requests_log, Request("efetch", outcome))
       /\ AfterFetch(outcome)
  /\ UNCHANGED <<n_retries, attempt, pubmed_id, doi_error>>

PubMedNext ==
  \/ Esearch /\ UNCHANGED <<pipeVars, dailyVars, llmVars, slackVars>>
  \/ LoopExhausted /\ UNCHANGED <<pipeVars, dailyVars, llmVars, slackVars>>
  \/ Efetch /\ UNCHANGED <<pipeVars, dailyVars, llmVars, slackVars>>
  \/ EfetchAgain /\ UNCHANGED <<pipeVars, dailyVars, llmVars, slackVars>>

\* the code runs on: every sleep is finite and every request has a time-out
SpecPubMed == PubMedInit /\ [][PubMedNext]_vars /\ WF_vars(PubMedNext)

(***************************************************************************)
(* Claims about get_doi_from_title, checked under SpecPubMed.              *)
(***************************************************************************)
\* the number of requests of a kind issued so far
NumRequests(kind) ==
  Cardinality({k \in 1..Len(requests_log) : requests_log[k].kind = kind})

\* C27: whatever the service answers, get_doi_from_title issues at most
\* n_retries esearch requests and at most two efetch requests, raises
\* nothing, and eventually returns a DOI string or None (also when every
\* attempt fails or is rate-limited, and when n_retries is 0).
C27_LookupTerminatesWithinBounds ==
  /\ [](/\ NumRequests("esearch") <= n_retries
        /\ NumRequests("efetch") <= 2
        /\ doi_error = ""
        /\ doi_pc # "raised"
        /\ doi_pc = "returned" => doi_result \in {None, Some(FetchedDoi)})
  /\ <>(doi_pc = "returned")

\* C27 witness: every esearch attempt but the last failed, the efetch was
\* rate-limited and repeated, and the function has returned
C27_Witness ==
  /\ doi_pc = "returned"
  /\ n_retries = MaxRetries
  /\ NumRequests("esearch") = n_retries
  /\ NumRequests("efetch") = 2
  /\ requests_log[1].outcome = "request_exception"

====
